---------------------------- MODULE Spec2Model ----------------------------
(***************************************************************************)
(* universal-location-parser: a model of the record normalizer, the merge  *)
(* and order engine and the format parsers' entry points.                  *)
(*                                                                         *)
(* Values that may be null are modelled as options: None is <<>> and a     *)
(* present value x is <<x>>.  Timestamps are whole hours; a naive          *)
(* timestamp is its wall-clock reading, a timezone offset is in hours.     *)
(***************************************************************************)
EXTENDS Integers, Sequences, FiniteSets, TLC

VARIABLES
    pc,              \* position of the run inside the specification at hand
    dataframes,      \* main_unified.py: all_dataframes, the batches handed to merge
    combined_df,     \* main_unified.py: combined_df = combine_dataframes(all_dataframes)
    sorted_indices,  \* data_converter.py:142 sorted_indices
    sorted_df,       \* main_unified.py: sorted_df = sort_dataframe_by_time(combined_df)
    timestamp_str,   \* data_converter.py: the argument of convert_timestamp_to_utc
    normalized,      \* data_converter.py: what convert_timestamp_to_utc returned
    geo_str,         \* json_parser.py: a coordinate string handed to the parsers
    geo_iphone,      \* json_parser.py: what extract_geo_coordinates returned for it
    geo_android,     \* json_parser.py: lat, lng of parse_android_data lines 49-52
    document,        \* the source document handed to a format parser
    dialect,         \* json_parser.py: the dialect parser parse_json_data called
    parse_result,    \* what the format parser did: raised, or returned records
    gpx_filename,      \* gpx_parser.py: the file name handed to classify_activity
    gpx_track_name,    \* gpx_parser.py: the name of the track at hand
    gpx_trackpoints,   \* gpx_parser.py: all_trackpoints, the working list of a track
    gpx_activity_type, \* gpx_parser.py: the label classify_activity returned
    gpx_semantic_type, \* gpx_parser.py: what assign_semantic_type returned
    kmz_namelist,      \* kml_parser.py: kmz.namelist(), the members of the container
    kml_bytes,         \* kml_parser.py: what _read_kml_bytes did: raised, or returned a member
    json_files,        \* main_unified.py:99 json_files
    gpx_files,         \* main_unified.py:100 gpx_files
    kml_files,         \* main_unified.py:132 kml_files
    file_i,            \* main_unified.py: the files the three loops are done with
    all_dataframes,    \* main_unified.py:112 all_dataframes, by the file each frame came from
    os_path,           \* file_handler.py: the module behind os.path, posixpath or ntpath
    filepath,          \* file_handler.py: the argument of get_username_from_filename
    username,          \* file_handler.py: what get_username_from_filename returned
    conv_records,      \* data_converter.py: the argument of convert_records_to_dataframe
    conv_df,           \* data_converter.py: the frame it returned
    csv_header         \* csv_exporter.py: output_columns, the header of the file written

mergeVars == <<dataframes, combined_df, sorted_indices, sorted_df>>
timeVars == <<timestamp_str, normalized>>
geoVars == <<geo_str, geo_iphone, geo_android>>
parseVars == <<document, dialect, parse_result>>
trackVars == <<gpx_filename, gpx_track_name, gpx_trackpoints, gpx_activity_type, gpx_semantic_type>>
mainVars == <<json_files, gpx_files, kml_files, file_i, all_dataframes>>
userVars == <<os_path, filepath, username>>
frameVars == <<conv_records, conv_df, csv_header>>
fileVars == <<kmz_namelist, kml_bytes, mainVars, userVars, frameVars>>
vars == <<pc, mergeVars, timeVars, geoVars, parseVars, trackVars, fileVars>>

None == <<>>
Some(x) == <<x>>

-----------------------------------------------------------------------------
(* Bounds of the model *)

MaxRows == 3        \* records in all batches together
MaxBatches == 3     \* batches handed to combine_dataframes
MaxWall == 23       \* wall-clock readings 0..MaxWall of a timestamp, in hours
MaxTokens == 5      \* tokens of a generated coordinate string
MaxSegments == 2    \* elements of a JSON list / of semanticSegments
MaxPoints == 2      \* track points of a GPX document
MaxTrackpoints == 3 \* trackpoints handed to calculate_speeds and classify_activity
MaxWords == 2       \* words of a file name or track name
MaxPairs == 2       \* <when> and <gx:coord> children of a gx:Track
MaxPlacemarks == 2  \* Placemarks of a KML document

(* Program constants: config.py INPUT_TIMEZONE / OUTPUT_TIMEZONE as UTC     *)
(* offsets in hours (Asia/Tokyo is UTC+9 the whole year, UTC is UTC+0).     *)
INPUT_TIMEZONE == 9
OUTPUT_TIMEZONE == 0

-----------------------------------------------------------------------------
(* DataFrames: a set of column names and a sequence of rows, each row a    *)
(* function from the frame's columns to option values.                     *)

TimeColumns == {"point_time", "start_time", "end_time"}
RecordColumns == {"type"} \cup TimeColumns

EmptyDataFrame == [cols |-> {}, rows |-> <<>>]

\* DataFrame.empty: true when either axis has length 0
df_empty(df) == df.cols = {} \/ Len(df.rows) = 0

\* DataFrame.dropna(axis=1, how='all')
dropna_all(df) ==
    LET keep == {c \in df.cols : \E i \in 1..Len(df.rows) : df.rows[i][c] # None}
    IN  [cols |-> keep,
         rows |-> [i \in 1..Len(df.rows) |-> [c \in keep |-> df.rows[i][c]]]]

RECURSIVE valid_frames(_)
\* combine_dataframes, the loop that builds valid_dfs
valid_frames(dfs) ==
    IF dfs = <<>> THEN <<>>
    ELSE IF ~df_empty(Head(dfs))
         THEN <<dropna_all(Head(dfs))>> \o valid_frames(Tail(dfs))
         ELSE valid_frames(Tail(dfs))

RECURSIVE concat_rows(_, _)
concat_rows(dfs, cols) ==
    IF dfs = <<>> THEN <<>>
    ELSE LET d == Head(dfs)
         IN  [i \in 1..Len(d.rows) |->
                 [c \in cols |-> IF c \in d.cols THEN d.rows[i][c] ELSE None]]
             \o concat_rows(Tail(dfs), cols)

\* pd.concat(valid_dfs, ignore_index=True): union of the columns, rows in
\* arrival order, a column missing from a frame filled with null
pd_concat(dfs) ==
    LET cols == UNION {dfs[k].cols : k \in 1..Len(dfs)}
    IN  [cols |-> cols, rows |-> concat_rows(dfs, cols)]

combine_dataframes_keep_all_na(dfs) ==
    IF dfs = <<>> THEN EmptyDataFrame
    ELSE LET valid == SelectSeq(dfs, LAMBDA d : ~df_empty(d))
         IN  IF valid = <<>> THEN EmptyDataFrame ELSE pd_concat(valid)

combine_dataframes(dfs) ==
    IF dfs = <<>> THEN EmptyDataFrame
    ELSE LET valid == valid_frames(dfs)
         IN  IF valid = <<>> THEN EmptyDataFrame ELSE pd_concat(valid)

-----------------------------------------------------------------------------
(* sort_dataframe_by_time *)

\* _to_naive_utc._conv on a value of a merged frame (null or a naive
\* Timestamp): localize as INPUT_TIMEZONE, convert to OUTPUT_TIMEZONE, strip
_conv(x) ==
    IF x = None THEN None ELSE Some(x[1] - INPUT_TIMEZONE + OUTPUT_TIMEZONE)

\* the loop of lines 122-124: every time column that exists is converted
unify_time_columns(df) ==
    [cols |-> df.cols,
     rows |-> [i \in 1..Len(df.rows) |->
                 [c \in df.cols |-> IF c \in TimeColumns
                                    THEN _conv(df.rows[i][c])
                                    ELSE df.rows[i][c]]]]

\* _safe_series: the column, or a series of NaT when it does not exist
_safe_series(df, name) ==
    [i \in 1..Len(df.rows) |-> IF name \in df.cols THEN df.rows[i][name] ELSE None]

\* Series.fillna(other)
fillna(s, other) == [i \in DOMAIN s |-> IF s[i] = None THEN other[i] ELSE s[i]]

sort_time_start_first(df) ==
    fillna(fillna(_safe_series(df, "start_time"), _safe_series(df, "point_time")),
           _safe_series(df, "end_time"))

\* line 138: point_time, else start_time, else end_time
sort_time(df) ==
    fillna(fillna(_safe_series(df, "point_time"), _safe_series(df, "start_time")),
           _safe_series(df, "end_time"))

isna_all(s) == \A i \in DOMAIN s : s[i] = None

Permutations1(n) ==
    {p \in [1..n -> 1..n] : \A i, j \in 1..n : i # j => p[i] # p[j]}

sort_values_index_unsorted(s) == {[i \in 1..Len(s) |-> i]}

\* Series.sort_values().index with the defaults kind='quicksort',
\* na_position='last': the non-null values ascending, equal values in an
\* order the sort does not fix (quicksort is not a stable sort), then the
\* null values in their original order.
sort_values_index(s) ==
    {p \in Permutations1(Len(s)) :
        \A i, j \in 1..Len(s) : i < j =>
            /\ s[p[i]] = None => (s[p[j]] = None /\ p[i] < p[j])
            /\ (s[p[i]] # None /\ s[p[j]] # None) => s[p[i]][1] <= s[p[j]][1]}

\* the index orders sort_values() can hand back for df (identity when the
\* function returns before sorting)
sort_index_choices(df) ==
    IF df_empty(df) \/ isna_all(sort_time(unify_time_columns(df)))
    THEN {[i \in 1..Len(df.rows) |-> i]}
    ELSE sort_values_index(sort_time(unify_time_columns(df)))

sort_dataframe_by_time_dropna(df, idx) ==
    LET u == unify_time_columns(df)
        st == sort_time(u)
        kept == SelectSeq(idx, LAMBDA k : st[k] # None)
    IN  IF df_empty(df) THEN df
        ELSE [cols |-> u.cols, rows |-> [i \in 1..Len(kept) |-> u.rows[kept[i]]]]

\* sort_dataframe_by_time, with idx the index order sort_values() returned
sort_dataframe_by_time(df, idx) ==
    IF df_empty(df) THEN df
    ELSE LET u == unify_time_columns(df)
         IN  IF ~isna_all(sort_time(u))
             THEN [cols |-> u.cols, rows |-> [i \in 1..Len(idx) |-> u.rows[idx[i]]]]
             ELSE u

-----------------------------------------------------------------------------
(* convert_timestamp_to_utc *)

\* A timestamp argument: empty, unparsable, a naive wall-clock reading, or
\* a reading that carries its UTC offset.
Offsets == {0 - 5, 0, 9}

TimestampInputs ==
    {[kind |-> k, wall |-> 0, off |-> 0] : k \in {"empty", "unparsable"}}
    \cup {[kind |-> "naive", wall |-> w, off |-> 0] : w \in 0..MaxWall}
    \cup {[kind |-> "aware", wall |-> w, off |-> o] : w \in 0..MaxWall, o \in Offsets}

\* Timestamp.tz_localize(tz) on a naive reading: the instant whose
\* wall-clock reading in tz is wall
tz_localize(wall, tz) == [utc |-> wall - tz, tz |-> tz]

\* Timestamp.tz_convert(tz): the same instant, in another zone
tz_convert(dt, tz) == [utc |-> dt.utc, tz |-> tz]

\* Timestamp.tz_localize(None): the wall-clock reading, zone marker removed
tz_strip(dt) == dt.utc + dt.tz

convert_timestamp_naive_as_output(t) ==
    IF t.kind \in {"empty", "unparsable"} THEN None
    ELSE LET dt == IF t.kind = "naive"
                   THEN tz_localize(t.wall, OUTPUT_TIMEZONE)
                   ELSE tz_localize(t.wall, t.off)
         IN  Some(tz_strip(tz_convert(dt, OUTPUT_TIMEZONE)))

convert_timestamp_to_utc(t) ==
    IF t.kind = "empty" THEN None                 \* if not timestamp_str
    ELSE IF t.kind = "unparsable" THEN None       \* pd.isna(dt), or the except
    ELSE LET dt == IF t.kind = "naive"
                   THEN tz_localize(t.wall, INPUT_TIMEZONE)
                   ELSE tz_localize(t.wall, t.off) \* to_datetime kept the offset
         IN  Some(tz_strip(tz_convert(dt, OUTPUT_TIMEZONE)))

IdleTime ==
    /\ timestamp_str = [kind |-> "empty", wall |-> 0, off |-> 0]
    /\ normalized = None

IdleMerge ==
    /\ dataframes = <<>>
    /\ combined_df = EmptyDataFrame
    /\ sorted_indices = <<>>
    /\ sorted_df = EmptyDataFrame

-----------------------------------------------------------------------------
(* Coordinate strings.  A string is a sequence of tokens: the prefix       *)
(* "geo:", decimal numbers, a comma, a comma followed by a space, "deg"    *)
(* for the degree sign, and "x" for any other text.  A value that is not a string  *)
(* (null, a number, a mapping) has isstr = FALSE.                          *)

GeoAlphabet == {"geo:", "35.6", "139.7", ",", ", ", "deg", "x"}

\* the result of float('nan'), a value no coordinate has
NaN == 999999999

NumberTokens == {"35.6", "139.7", "35.639772", "139.670222", "0.0", "nan"}

\* the value of a decimal literal, in millionths of a degree
NumberValue(tok) ==
    CASE tok = "35.6" -> 35600000
      [] tok = "139.7" -> 139700000
      [] tok = "35.639772" -> 35639772
      [] tok = "139.670222" -> 139670222
      [] tok = "0.0" -> 0
      [] tok = "nan" -> NaN

GeoExample == <<"geo:", "35.639772", ",", "139.670222">>
DegreeExample == <<"35.6", "deg", ", ", "139.7", "deg">>

NotAString == [isstr |-> FALSE, toks |-> <<>>]
Str(toks) == [isstr |-> TRUE, toks |-> toks]

\* str.replace(tok, '')
str_remove(toks, tok) == SelectSeq(toks, LAMBDA x : x # tok)

RECURSIVE split_acc(_, _, _)
split_acc(toks, seps, cur) ==
    IF toks = <<>> THEN <<cur>>
    ELSE IF Head(toks) \in seps
         THEN <<cur>> \o split_acc(Tail(toks), seps, <<>>)
         ELSE split_acc(Tail(toks), seps, Append(cur, Head(toks)))

\* str.split(sep): the parts between the separators.  Splitting on ','
\* also cuts at ", " (the blank then leads the next part, where float()
\* ignores it); splitting on ', ' leaves a lone ',' inside its part.
str_split(toks, seps) == split_acc(toks, seps, <<>>)

\* float(part): the number when the part is one decimal literal or the
\* text nan, None for the ValueError of any other text
py_float(part) ==
    IF Len(part) = 1 /\ part[1] \in NumberTokens
    THEN Some(NumberValue(part[1]))
    ELSE None

extract_geo_coordinates_keep_prefix(g) ==
    IF ~g.isstr \/ g.toks = <<>> THEN <<None, None>>
    ELSE LET parts == str_split(g.toks, {",", ", "})
         IN  IF Len(parts) >= 2 /\ py_float(parts[1]) # None /\ py_float(parts[2]) # None
             THEN <<py_float(parts[1]), py_float(parts[2])>>
             ELSE <<None, None>>

\* extract_geo_coordinates (the iPhone dialect's coordinate parser)
extract_geo_coordinates(g) ==
    IF ~g.isstr \/ g.toks = <<>> THEN <<None, None>>
    ELSE LET parts == str_split(str_remove(g.toks, "geo:"), {",", ", "})
         IN  IF Len(parts) >= 2
             THEN IF py_float(parts[1]) # None /\ py_float(parts[2]) # None
                  THEN <<py_float(parts[1]), py_float(parts[2])>>
                  ELSE <<None, None>>      \* float() raised: except, pass
             ELSE <<None, None>>

\* parse_android_data lines 49-52 (and 75-78, 103-106):
\* lat, lng = map(float, s.replace('°', '').split(', ')), any exception
\* (not a string, not exactly two parts, a part not a number) giving None, None
android_lat_lng(g) ==
    IF ~g.isstr THEN <<None, None>>
    ELSE LET parts == str_split(str_remove(g.toks, "deg"), {", "})
         IN  IF Len(parts) = 2 /\ py_float(parts[1]) # None /\ py_float(parts[2]) # None
             THEN <<py_float(parts[1]), py_float(parts[2])>>
             ELSE <<None, None>>

IdleGeo ==
    /\ geo_str = NotAString
    /\ geo_iphone = <<None, None>>
    /\ geo_android = <<None, None>>

-----------------------------------------------------------------------------
(* JSON timeline documents.  An element of the top-level list (iPhone) or  *)
(* of semanticSegments (Android) is a mapping (kind "dict") or some other  *)
(* JSON value.  st tells whether  'startTime' in element  is true: the     *)
(* mapping has the key, the string contains the text, the list holds it.   *)

Visit(loc, prob) == [loc |-> loc, prob |-> prob]
Activity(start, end) == [start |-> start, end |-> end]

Segment(st, visit, activity, path) ==
    [kind |-> "dict", st |-> st, visit |-> visit, activity |-> activity, path |-> path]

NonMapping(kind, st) ==
    [kind |-> kind, st |-> st, visit |-> None, activity |-> None, path |-> <<>>]

ElementUniverse ==
    { Segment(TRUE, Some(Visit(Str(GeoExample), "0.9")), None, <<>>),
      Segment(TRUE, Some(Visit(Str(<<"x">>), "absent")), None, <<>>),
      Segment(TRUE, Some(Visit(Str(GeoExample), "high")), None, <<>>),
      Segment(TRUE, None, Some(Activity(Str(GeoExample), Str(GeoExample))), <<>>),
      Segment(TRUE, None, Some(Activity(Str(<<"geo:", "0.0", ",", "139.7">>),
                                        Str(<<"x">>))), <<>>),
      Segment(TRUE, Some(Visit(Str(DegreeExample), "0.9")), None, <<Str(DegreeExample)>>),
      Segment(FALSE, Some(Visit(Str(GeoExample), "0.9")), None, <<>>),
      NonMapping("num", FALSE), NonMapping("null", FALSE),
      NonMapping("str", TRUE), NonMapping("str", FALSE),
      NonMapping("list", TRUE) }

\* a JSON document: a list, a mapping (with or without the key
\* semanticSegments, whose value is elems), a scalar or null
JsonData(kind, hasSegments, elems) ==
    [kind |-> kind, hasSegments |-> hasSegments, elems |-> elems]

JsonRecord(type, latlng, prob) ==
    [type |-> type, latitude |-> latlng[1], longitude |-> latlng[2],
     probability |-> prob]

Returned(records) == [raised |-> FALSE, records |-> records]
Raised == [raised |-> TRUE, records |-> <<>>]

\* Python truthiness of a number or None
Truthy(x) == x # None /\ x[1] # 0

detect_format_any_list(data) ==
    IF data.kind = "list" /\ Len(data.elems) > 0 THEN "iphone"
    ELSE IF data.kind = "dict" /\ data.hasSegments THEN "android"
    ELSE "error"

\* detect_format: "error" stands for the ValueError it raises, and for the
\* TypeError of  'startTime' in data[0]  when data[0] is a number or null
detect_format(data) ==
    IF data.kind = "list" /\ Len(data.elems) > 0
    THEN IF data.elems[1].kind \in {"num", "null"} THEN "error"
         ELSE IF data.elems[1].st THEN "iphone" ELSE "error"
    ELSE IF data.kind = "dict" /\ data.hasSegments THEN "android"
    ELSE "error"

\* parse_iphone_data, the body of the loop for one segment
iphone_segment(seg) ==
    IF seg.kind # "dict" THEN Raised               \* segment.get: AttributeError
    ELSE IF seg.visit # None /\ seg.visit[1].prob = "high"
         THEN Raised                               \* float('high'): ValueError
    ELSE LET v == IF seg.visit = None THEN <<>>
                  ELSE <<JsonRecord("visit",
                             extract_geo_coordinates(seg.visit[1].loc),
                             IF seg.visit[1].prob = "absent" THEN None
                             ELSE Some(seg.visit[1].prob))>>
             s == IF seg.activity = None THEN <<None, None>>
                  ELSE extract_geo_coordinates(seg.activity[1].start)
             e == IF seg.activity = None THEN <<None, None>>
                  ELSE extract_geo_coordinates(seg.activity[1].end)
             a == (IF Truthy(s[1]) /\ Truthy(s[2])
                   THEN <<JsonRecord("activity_start", s, None)>> ELSE <<>>)
                  \o (IF Truthy(e[1]) /\ Truthy(e[2])
                      THEN <<JsonRecord("activity_end", e, None)>> ELSE <<>>)
         IN  Returned(v \o a)

\* parse_android_data, the body of the loop for one segment
android_segment(seg) ==
    IF seg.kind # "dict" THEN Raised               \* segment.get: AttributeError
    ELSE LET p == [i \in 1..Len(seg.path) |->
                      JsonRecord("timelinePath", android_lat_lng(seg.path[i]), None)]
             v == IF seg.visit = None THEN <<>>
                  ELSE <<JsonRecord("visit", android_lat_lng(seg.visit[1].loc),
                             IF seg.visit[1].prob = "absent" THEN None
                             ELSE Some(seg.visit[1].prob))>>
             a == IF seg.activity = None THEN <<>>
                  ELSE <<JsonRecord("activity_start",
                             android_lat_lng(seg.activity[1].start), None),
                         JsonRecord("activity_end",
                             android_lat_lng(seg.activity[1].end), None)>>
         IN  Returned(p \o v \o a)

RECURSIVE parse_iphone_data(_)
\* an exception in any segment leaves the function, and its records are lost
parse_iphone_data(elems) ==
    IF elems = <<>> THEN Returned(<<>>)
    ELSE LET h == iphone_segment(Head(elems))
             t == parse_iphone_data(Tail(elems))
         IN  IF h.raised \/ t.raised THEN Raised
             ELSE Returned(h.records \o t.records)

RECURSIVE parse_android_data(_)
parse_android_data(elems) ==
    IF elems = <<>> THEN Returned(<<>>)
    ELSE LET h == android_segment(Head(elems))
             t == parse_android_data(Tail(elems))
         IN  IF h.raised \/ t.raised THEN Raised
             ELSE Returned(h.records \o t.records)

\* the parser parse_json_data hands the data to
json_dialect(data) ==
    IF detect_format(data) = "error" THEN "none" ELSE detect_format(data)

\* parse_json_data: every exception is swallowed and [] returned
parse_json_data(data) ==
    LET fmt == detect_format(data)
        r == IF fmt = "android" THEN parse_android_data(data.elems)
             ELSE IF fmt = "iphone" THEN parse_iphone_data(data.elems)
             ELSE Raised
    IN  IF r.raised THEN Returned(<<>>) ELSE r

-----------------------------------------------------------------------------
(* File names and track names are sequences of words; a keyword is "in" a  *)
(* name when it is a substring of one of its words.  Japanese words are    *)
(* written in romaji: yama = 山, take = 岳, mine = 峰, touge = 峠,         *)
(* tozan = 登山 (which contains 山), haikingu = ハイキング, kogen = 高原,  *)
(* ran = ラン, ranningu = ランニング (which contains ラン),                *)
(* jogingu = ジョギング, saikuru = サイクル, jitensha = 自転車.            *)

\* str.lower() of one word
LowerWord(w) ==
    CASE w = "Run" -> "run"
      [] w = "Peak" -> "peak"
      [] OTHER -> w

\* the keywords that are substrings of a word
SubKeywords(w) ==
    {w} \cup (CASE w = "running" -> {"run"}
                [] w = "tozan" -> {"yama"}
                [] w = "ranningu" -> {"ran"}
                [] OTHER -> {})

lower(s) == [i \in 1..Len(s) |-> LowerWord(s[i])]

\* keyword in s
contains(s, keyword) == \E i \in 1..Len(s) : keyword \in SubKeywords(s[i])

\* any(keyword in s for keyword in keywords)
contains_any(s, keywords) == \E k \in keywords : contains(s, k)

mountain_keywords ==
    {"yama", "take", "mine", "touge", "mountain", "peak", "summit", "tozan", "haikingu"}
running_keywords == {"run", "running", "ran", "ranningu", "jogingu"}
cycling_keywords == {"bike", "cycling", "saikuru", "jitensha"}

\* the tokens assign_semantic_type looks for
semantic_mountain_tokens == {"yama", "take", "mine", "kogen", "touge"}

-----------------------------------------------------------------------------
(* Trackpoints.  Coordinates are in hundredths of a degree, elevations in  *)
(* metres, times in seconds, speeds in metres per hour (1 km/h = 1000).    *)
(* A datetime is aware (it carries a UTC offset) or naive.                 *)

KmH == 1000

\* GPX_CONFIG["speed_thresholds"] and ["elevation_thresholds"]
walking_max == 4
hiking_max == 6
running_max == 15
cycling_max == 40
driving_min == 40
hiking_min_gain == 100
SpeedCeiling == 200

DateTime(aware, t) == [aware |-> aware, t |-> t]

Trackpoint(lat, lon, ele, time, idx, seg, speed) ==
    [latitude |-> lat, longitude |-> lon, elevation |-> ele, point_time |-> time,
     point_index |-> idx, segment_index |-> seg, speed |-> speed]

Abs(x) == IF x < 0 THEN 0 - x ELSE x
Min(a, b) == IF a < b THEN a ELSE b

\* metres of one hundredth of a degree of latitude: 6371000 * pi / 18000
MetresPerUnit == 1112

\* haversine_distance for two points of one meridian, where the formula
\* reduces to R * |lat2 - lat1| in radians; the places of the model all lie
\* on one meridian
haversine_distance(lat1, lon1, lat2, lon2) == Abs(lat2 - lat1) * MetresPerUnit

\* calculate_speeds, the body of the loop for i > 0: all([...]) is false
\* for a None and for a coordinate 0.0; subtracting a naive from an aware
\* datetime raises TypeError, which the bare except turns into speed 0
pair_speed(prev_point, curr_point) ==
    IF ~(Truthy(prev_point.latitude) /\ Truthy(prev_point.longitude)
         /\ Truthy(curr_point.latitude) /\ Truthy(curr_point.longitude)
         /\ prev_point.point_time # None /\ curr_point.point_time # None)
    THEN 0
    ELSE IF prev_point.point_time[1].aware # curr_point.point_time[1].aware
    THEN 0
    ELSE LET distance == haversine_distance(
                 prev_point.latitude[1], prev_point.longitude[1],
                 curr_point.latitude[1], curr_point.longitude[1])
             time_diff == curr_point.point_time[1].t - prev_point.point_time[1].t
         IN  IF time_diff > 0
             THEN Min((distance * 3600) \div time_diff, SpeedCeiling * KmH)
             ELSE 0

calculate_speeds(trackpoints) ==
    [i \in 1..Len(trackpoints) |->
        [trackpoints[i] EXCEPT !.speed =
            IF i = 1 THEN Some(0)
            ELSE Some(pair_speed(trackpoints[i - 1], trackpoints[i]))]]

RECURSIVE elevation_gain_from(_, _, _)
\* calculate_elevation_gain from position i on, prev the last non-null
\* elevation seen
elevation_gain_from(trackpoints, i, prev_elevation) ==
    IF i > Len(trackpoints) THEN 0
    ELSE LET elevation == trackpoints[i].elevation
         IN  IF elevation = None
             THEN elevation_gain_from(trackpoints, i + 1, prev_elevation)
             ELSE (IF prev_elevation # None /\ elevation[1] > prev_elevation[1]
                   THEN elevation[1] - prev_elevation[1] ELSE 0)
                  + elevation_gain_from(trackpoints, i + 1, elevation)

calculate_elevation_gain(trackpoints) == elevation_gain_from(trackpoints, 1, None)

\* tp.get('speed', 0)
get_speed(tp) == IF tp.speed = None THEN 0 ELSE tp.speed[1]

RECURSIVE Sum(_)
Sum(s) == IF s = <<>> THEN 0 ELSE Head(s) + Sum(Tail(s))

\* the positive speeds of the trackpoints
positive_speeds(trackpoints) ==
    LET all == [i \in 1..Len(trackpoints) |-> get_speed(trackpoints[i])]
    IN  SelectSeq(all, LAMBDA v : v > 0)

\* avg_speed as the fraction sum / count (0 / 1 without positive speeds)
avg_speed(trackpoints) ==
    LET speeds == positive_speeds(trackpoints)
    IN  IF speeds # <<>> THEN [num |-> Sum(speeds), den |-> Len(speeds)]
        ELSE [num |-> 0, den |-> 1]

\* avg < limit km/h
Below(avg, limit) == avg.num < limit * KmH * avg.den

\* avg <= limit km/h
AtMost(avg, limit) == avg.num <= limit * KmH * avg.den

classify_by_movement_inclusive(trackpoints) ==
    IF Len(trackpoints) > 1
    THEN LET avg == avg_speed(trackpoints)
             elevation_gain == calculate_elevation_gain(trackpoints)
         IN  IF AtMost(avg, hiking_max) /\ elevation_gain >= hiking_min_gain THEN "hiking"
             ELSE IF AtMost(avg, walking_max) THEN "walking"
             ELSE IF AtMost(avg, running_max) THEN "running"
             ELSE IF AtMost(avg, cycling_max) THEN "cycling"
             ELSE "driving"
    ELSE "unknown"

\* classify_activity, tier 3
classify_by_movement(trackpoints) ==
    IF Len(trackpoints) > 1
    THEN LET avg == avg_speed(trackpoints)
             elevation_gain == calculate_elevation_gain(trackpoints)
         IN  IF Below(avg, hiking_max) /\ elevation_gain > hiking_min_gain THEN "hiking"
             ELSE IF Below(avg, walking_max) THEN "walking"
             ELSE IF Below(avg, running_max) THEN "running"
             ELSE IF Below(avg, cycling_max) THEN "cycling"
             ELSE IF ~Below(avg, driving_min) THEN "driving"
             ELSE "unknown"
    ELSE "unknown"

\* classify_activity, tier 2
classify_by_track_name(track_name, trackpoints) ==
    IF track_name # <<>> /\ contains_any(lower(track_name), mountain_keywords)
    THEN "hiking"
    ELSE IF track_name # <<>> /\ contains_any(lower(track_name), running_keywords)
    THEN "running"
    ELSE IF track_name # <<>> /\ contains_any(lower(track_name), cycling_keywords)
    THEN "cycling"
    ELSE classify_by_movement(trackpoints)

classify_activity_track_name_first(filename, track_name, trackpoints) ==
    IF track_name # <<>> /\ contains_any(lower(track_name), mountain_keywords)
    THEN "hiking"
    ELSE IF contains(lower(filename), "yamap") THEN "hiking"
    ELSE IF contains_any(lower(filename), {"run", "running"}) THEN "running"
    ELSE IF contains_any(lower(filename), {"bike", "cycling"}) THEN "cycling"
    ELSE IF contains_any(lower(filename), {"walk", "walking"}) THEN "walking"
    ELSE classify_by_track_name(track_name, trackpoints)

classify_activity(filename, track_name, trackpoints) ==
    IF contains(lower(filename), "yamap") THEN "hiking"
    ELSE IF contains_any(lower(filename), {"run", "running"}) THEN "running"
    ELSE IF contains_any(lower(filename), {"bike", "cycling"}) THEN "cycling"
    ELSE IF contains_any(lower(filename), {"walk", "walking"}) THEN "walking"
    ELSE classify_by_track_name(track_name, trackpoints)

semantic_mapping(activity_type) ==
    CASE activity_type \in {"hiking", "walking"} -> "Recreation"
      [] activity_type \in {"running", "cycling"} -> "Sports"
      [] activity_type = "driving" -> "Transportation"
      [] OTHER -> "Other"

\* assign_semantic_type: the test is on track_name as it is, not lowered
assign_semantic_type(activity_type, track_name) ==
    IF track_name # <<>> /\ contains_any(track_name, semantic_mountain_tokens)
    THEN "Mountain"
    ELSE semantic_mapping(activity_type)

-----------------------------------------------------------------------------
(* GPX documents: well-formed or not, with root <gpx> or another root, a   *)
(* file name, tracks and waypoints.  A <trkpt> or <wpt> has a position     *)
(* (None when its lat or lon attribute is missing or not a number), an     *)
(* <ele> (absent, not a number, or a number) and a <time> (absent, not an  *)
(* ISO-8601 text, or a datetime).                                          *)

Absent == [kind |-> "absent", val |-> 0]
Bad == [kind |-> "bad", val |-> 0]
Value(v) == [kind |-> "value", val |-> v]

Place(lat, lon) == [lat |-> lat, lon |-> lon]

GpxPoint(pos, ele, time) == [pos |-> pos, ele |-> ele, time |-> time]

GpxTrack(name, segments) == [name |-> name, segments |-> segments]

GpxDoc(wellformed, root, filename, tracks, waypoints) ==
    [wellformed |-> wellformed, root |-> root, filename |-> filename,
     tracks |-> tracks, waypoints |-> waypoints]

\* float(ele_elem.text) if ele_elem is not None else None
point_elevation(ele) == IF ele.kind = "value" THEN Some(ele.val) ELSE None

\* datetime.fromisoformat inside its own try/except
point_time(time) == IF time.kind = "value" THEN Some(time.val) ELSE None

\* parse_trackpoint: float(lat), float(lon) and float(ele_elem.text) are in
\* one try; a ValueError or TypeError of any of them gives None
parse_trackpoint(point, point_index) ==
    IF point.pos = None \/ point.ele.kind = "bad" THEN None
    ELSE Some(Trackpoint(Some(point.pos[1].lat), Some(point.pos[1].lon),
                         point_elevation(point.ele), point_time(point.time),
                         point_index, 0, None))

RECURSIVE process_segment(_, _, _)
\* the trackpoints of one <trkseg> from position i on; pt_idx = i - 1
process_segment(points, i, seg_idx) ==
    IF i > Len(points) THEN <<>>
    ELSE LET trackpoint_data == parse_trackpoint(points[i], i - 1)
         IN  (IF trackpoint_data = None THEN <<>>
              ELSE <<[trackpoint_data[1] EXCEPT !.segment_index = seg_idx]>>)
             \o process_segment(points, i + 1, seg_idx)

RECURSIVE all_trackpoints(_, _)
\* the trackpoints of the segments from position s on; seg_idx = s - 1
all_trackpoints(segments, s) ==
    IF s > Len(segments) THEN <<>>
    ELSE process_segment(segments[s], 1, s - 1) \o all_trackpoints(segments, s + 1)

valid_times(trackpoints) ==
    LET times == [i \in 1..Len(trackpoints) |-> trackpoints[i].point_time]
    IN  SelectSeq(times, LAMBDA x : x # None)

\* min() and max() of datetimes raise TypeError when naive and aware ones
\* are compared
Incomparable(times) ==
    \E i, j \in 1..Len(times) : times[i][1].aware # times[j][1].aware

first_time(times) == IF times = <<>> THEN None ELSE times[1]

min_time(times) ==
    IF times = <<>> THEN None
    ELSE CHOOSE x \in {times[i] : i \in 1..Len(times)} :
            \A j \in 1..Len(times) : x[1].t <= times[j][1].t

max_time(times) ==
    IF times = <<>> THEN None
    ELSE CHOOSE x \in {times[i] : i \in 1..Len(times)} :
            \A j \in 1..Len(times) : x[1].t >= times[j][1].t

TrackRecord(tp, start_time, end_time, activity_type, semantic_type, track_name) ==
    [type |-> "gpx_trackpoint", start_time |-> start_time, end_time |-> end_time,
     point_time |-> tp.point_time, latitude |-> tp.latitude,
     longitude |-> tp.longitude, visit_placeId |-> track_name,
     visit_semanticType |-> semantic_type, elevation |-> tp.elevation,
     activity_type |-> activity_type, speed |-> tp.speed,
     point_sequence |-> tp.point_index]

\* process_track: the activity is classified before calculate_speeds runs
process_track(track, filename) ==
    LET points == all_trackpoints(track.segments, 1)
        times == valid_times(points)
    IN  IF points = <<>> THEN Returned(<<>>)
        ELSE IF Incomparable(times) THEN Raised
        ELSE LET start_time == min_time(times)
                 end_time == max_time(times)
                 activity_type == classify_activity(filename, track.name, points)
                 semantic_type == assign_semantic_type(activity_type, track.name)
                 with_speeds == calculate_speeds(points)
             IN  Returned([i \in 1..Len(with_speeds) |->
                     TrackRecord(with_speeds[i], start_time, end_time,
                                 activity_type, semantic_type, track.name)])

RECURSIVE process_tracks(_, _)
\* the loop over the tracks; an exception of process_track leaves it
process_tracks(tracks, filename) ==
    IF tracks = <<>> THEN Returned(<<>>)
    ELSE LET h == process_track(Head(tracks), filename)
             t == process_tracks(Tail(tracks), filename)
         IN  IF h.raised \/ t.raised THEN Raised
             ELSE Returned(h.records \o t.records)

WaypointRecord(wpt, wpt_idx) ==
    [type |-> "gpx_waypoint", start_time |-> point_time(wpt.time),
     end_time |-> point_time(wpt.time), point_time |-> point_time(wpt.time),
     latitude |-> Some(wpt.pos[1].lat), longitude |-> Some(wpt.pos[1].lon),
     visit_placeId |-> <<"Waypoint">>, visit_semanticType |-> "Waypoint",
     elevation |-> point_elevation(wpt.ele), activity_type |-> "waypoint",
     speed |-> None, point_sequence |-> wpt_idx]

\* process_waypoint: None on ValueError or TypeError of float(lat),
\* float(lon) or float(ele_elem.text)
process_waypoint(waypoint, wpt_idx) ==
    IF waypoint.pos = None \/ waypoint.ele.kind = "bad" THEN None
    ELSE Some(WaypointRecord(waypoint, wpt_idx))

RECURSIVE process_waypoints(_, _)
process_waypoints(wpts, i) ==
    IF i > Len(wpts) THEN <<>>
    ELSE process_waypoint(wpts[i], i - 1) \o process_waypoints(wpts, i + 1)

\* parse_gpx_content: ET.fromstring raises ParseError on text that is not
\* well-formed; that and every other exception is caught and [] returned;
\* under a root that is not GPX no trk or wpt is found
parse_gpx_content(doc) ==
    IF ~doc.wellformed \/ doc.root # "gpx" THEN Returned(<<>>)
    ELSE LET track_records == process_tracks(doc.tracks, doc.filename)
         IN  IF track_records.raised THEN Returned(<<>>)
             ELSE Returned(track_records.records
                           \o process_waypoints(doc.waypoints, 1))

IdleTrack ==
    /\ gpx_filename = <<>>
    /\ gpx_track_name = <<>>
    /\ gpx_trackpoints = <<>>
    /\ gpx_activity_type = "none"
    /\ gpx_semantic_type = "none"

-----------------------------------------------------------------------------
(* KML documents: well-formed or not, with root <kml> or another root, the *)
(* gx:Track elements (under gx:MultiTrack or not) and the Placemarks with  *)
(* a Point or LineString.  A <gx:coord> is Value(v) when it holds two or   *)
(* three numbers, Bad when it holds something else, Absent when the        *)
(* element is empty (its text is None); a vertex of <coordinates> is       *)
(* Value(v) or Bad.  v stands for the longitude, latitude and elevation.   *)

GxTrack(whens, coords) == [whens |-> whens, coords |-> coords]

PlacemarkTime(point, start, end) ==
    [point_time |-> point, start_time |-> start, end_time |-> end]

NoTime == PlacemarkTime(None, None, None)

\* depth is the number of Folders around the Placemark
Placemark(time, geometry, coords, depth) ==
    [time |-> time, geometry |-> geometry, coords |-> coords, depth |-> depth]

KmlDoc(wellformed, root, tracks, placemarks) ==
    [wellformed |-> wellformed, root |-> root, tracks |-> tracks,
     placemarks |-> placemarks]

KmlRecord(type, position, time) ==
    [type |-> type, position |-> position, point_time |-> time.point_time,
     start_time |-> time.start_time, end_time |-> time.end_time]

RECURSIVE gx_pairs(_, _, _)
\* the loop over zip(whens, coords) from position i on: a coord that float()
\* rejects is skipped, coord.split() of an empty element raises
\* AttributeError, which is not caught
gx_pairs(whens, coords, i) ==
    IF i > Len(whens) \/ i > Len(coords) THEN Returned(<<>>)
    ELSE LET rest == gx_pairs(whens, coords, i + 1)
         IN  IF coords[i].kind = "absent" \/ rest.raised THEN Raised
             ELSE IF coords[i].kind = "bad" THEN rest
             ELSE Returned(<<KmlRecord("kml_gx_track", coords[i].val,
                                       PlacemarkTime(Some(whens[i]), None, None))>>
                           \o rest.records)

RECURSIVE _extract_gx_track(_)
\* every gx:Track of the document, those under gx:MultiTrack included
_extract_gx_track(tracks) ==
    IF tracks = <<>> THEN Returned(<<>>)
    ELSE LET h == gx_pairs(Head(tracks).whens, Head(tracks).coords, 1)
             t == _extract_gx_track(Tail(tracks))
         IN  IF h.raised \/ t.raised THEN Raised
             ELSE Returned(h.records \o t.records)

\* _parse_coordinates_text: a token that does not parse is skipped
_parse_coordinates_text(coords) == SelectSeq(coords, LAMBDA c : c.kind = "value")

\* the records of the vertices of one placemark, with the given time
vertex_records(pm, time) ==
    LET items == _parse_coordinates_text(pm.coords)
    IN  [i \in 1..Len(items) |-> KmlRecord("kml_" \o pm.geometry, items[i].val, time)]

\* any([point_time, start_time, end_time])
has_time(pm) ==
    pm.time.point_time # None \/ pm.time.start_time # None \/ pm.time.end_time # None

RECURSIVE _extract_placemark_with_times(_)
_extract_placemark_with_times(placemarks) ==
    IF placemarks = <<>> THEN <<>>
    ELSE (IF has_time(Head(placemarks))
          THEN vertex_records(Head(placemarks), Head(placemarks).time)
          ELSE <<>>)
         \o _extract_placemark_with_times(Tail(placemarks))

RECURSIVE geometries_of(_, _)
\* the untimed records of the placemarks with the given geometry
geometries_of(placemarks, geometry) ==
    IF placemarks = <<>> THEN <<>>
    ELSE (IF Head(placemarks).geometry = geometry
          THEN vertex_records(Head(placemarks), NoTime)
          ELSE <<>>)
         \o geometries_of(Tail(placemarks), geometry)

\* _extract_geometries_without_times: every Point of every Placemark at any
\* depth, then every LineString
_extract_geometries_without_times(placemarks) ==
    geometries_of(placemarks, "point") \o geometries_of(placemarks, "linestring")

RECURSIVE _extract_simple_geometries(_)
\* _extract_simple_geometries over what fastkml parsed: the geometries of
\* the features in document order; its records have no time keys, which
\* reads as null times
_extract_simple_geometries(placemarks) ==
    IF placemarks = <<>> THEN <<>>
    ELSE vertex_records(Head(placemarks), NoTime)
         \o _extract_simple_geometries(Tail(placemarks))

\* what fastkml's from_string may do with the bytes: raise, parse nothing
\* (an API the call does not fit), or parse the features
FastkmlOutcomes(doc) ==
    IF doc.root = "kml" THEN {"features", "nothing"} ELSE {"raises", "nothing"}

parse_kml_file_timed_first(doc, fastkml) ==
    IF ~doc.wellformed THEN Raised
    ELSE LET gx == _extract_gx_track(doc.tracks)
             timed == _extract_placemark_with_times(doc.placemarks)
             simple == IF fastkml = "features"
                       THEN _extract_simple_geometries(doc.placemarks) ELSE <<>>
         IN  IF timed # <<>> THEN Returned(timed)
             ELSE IF gx.raised THEN Raised
             ELSE IF gx.records # <<>> THEN gx
             ELSE IF fastkml = "raises" THEN Raised
             ELSE IF simple # <<>> THEN Returned(simple)
             ELSE Returned(_extract_geometries_without_times(doc.placemarks))

\* parse_kml_file: etree.fromstring raises XMLSyntaxError on bytes that are
\* not well-formed and nothing catches it; the extraction stages follow in
\* order, the first that yields records wins
parse_kml_file(doc, fastkml) ==
    IF ~doc.wellformed THEN Raised
    ELSE LET gx == _extract_gx_track(doc.tracks)
             timed == _extract_placemark_with_times(doc.placemarks)
             simple == IF fastkml = "features"
                       THEN _extract_simple_geometries(doc.placemarks) ELSE <<>>
         IN  IF gx.raised THEN Raised
             ELSE IF gx.records # <<>> THEN gx
             ELSE IF timed # <<>> THEN Returned(timed)
             ELSE IF fastkml = "raises" THEN Raised
             ELSE IF simple # <<>> THEN Returned(simple)
             ELSE Returned(_extract_geometries_without_times(doc.placemarks))

-----------------------------------------------------------------------------
(* KMZ containers.  A member name is a sequence of pieces: "a" (one        *)
(* character), "dir/" (a directory and its separator), "doc" or "DOC", and *)
(* the suffixes ".kml", ".KML" and ".txt".  No piece but "doc" followed by *)
(* ".kml" spells "doc.kml", so the substring test of the code is a test on *)
(* adjacent pieces.  A member's bytes are identified by the member's name. *)

MaxMembers == 3     \* members of a KMZ container

\* len() of a piece
PieceLen(p) ==
    CASE p = "a" -> 1
      [] p \in {"doc", "DOC"} -> 3
      [] OTHER -> 4

\* str.lower() of a piece
LowerPiece(p) ==
    CASE p = "DOC" -> "doc"
      [] p = ".KML" -> ".kml"
      [] OTHER -> p

\* n.lower()
name_lower(n) == [i \in 1..Len(n) |-> LowerPiece(n[i])]

\* len(n)
name_len(n) == Sum([i \in 1..Len(n) |-> PieceLen(n[i])])

\* n.lower().endswith(".kml")
endswith_kml(n) == n # <<>> /\ name_lower(n)[Len(n)] = ".kml"

\* "doc.kml" in n.lower()
contains_doc_kml(n) ==
    \E i \in 1..(Len(n) - 1) :
        name_lower(n)[i] = "doc" /\ name_lower(n)[i + 1] = ".kml"

DocKml == <<"doc", ".kml">>

\* the sort key len(n) alone
candidate_key_length_only(n) == <<0, name_len(n)>>

\* the sort key ("doc.kml" not in n.lower(), len(n)), False before True
candidate_key(n) == <<IF contains_doc_kml(n) THEN 0 ELSE 1, name_len(n)>>

\* tuple comparison a < b
key_less(a, b) == a[1] < b[1] \/ (a[1] = b[1] /\ a[2] < b[2])

RECURSIVE insert_stable(_, _)
\* n placed behind every element of the sorted list whose key is not larger
insert_stable(sorted, n) ==
    IF sorted = <<>> THEN <<n>>
    ELSE IF key_less(candidate_key(n), candidate_key(Head(sorted)))
         THEN <<n>> \o sorted
         ELSE <<Head(sorted)>> \o insert_stable(Tail(sorted), n)

RECURSIVE candidates_sort(_)
\* candidates.sort(key=...): list.sort is stable
candidates_sort(candidates) ==
    IF candidates = <<>> THEN <<>>
    ELSE insert_stable(candidates_sort(SubSeq(candidates, 1, Len(candidates) - 1)),
                       candidates[Len(candidates)])

\* what _read_kml_bytes did
KmzMember(n) == [raised |-> "no", member |-> n]
FileNotFoundError == [raised |-> "FileNotFoundError", member |-> <<>>]

\* _read_kml_bytes on a .kmz path whose archive has the members namelist
_read_kml_bytes(namelist) ==
    IF \E i \in 1..Len(namelist) : namelist[i] = DocKml
    THEN KmzMember(DocKml)
    ELSE LET candidates == candidates_sort(SelectSeq(namelist, endswith_kml))
         IN  IF candidates # <<>> THEN KmzMember(candidates[1])
             ELSE FileNotFoundError

IdleMain ==
    /\ json_files = <<>>
    /\ gpx_files = <<>>
    /\ kml_files = <<>>
    /\ file_i = 0
    /\ all_dataframes = <<>>

IdleUser ==
    /\ os_path = "posixpath"
    /\ filepath = <<>>
    /\ username = <<>>

IdleFrame ==
    /\ conv_records = <<>>
    /\ conv_df = EmptyDataFrame
    /\ csv_header = None

IdleFile ==
    /\ kmz_namelist = <<>>
    /\ kml_bytes = KmzMember(<<>>)
    /\ IdleMain
    /\ IdleUser
    /\ IdleFrame

-----------------------------------------------------------------------------
(* The run of main(): the files discovery returned, and what each of the   *)
(* three loops does with one file.  A JSON file is readable (load_json_file *)
(* returns its data) or not; a GPX file has the header validate_gpx_file   *)
(* looks for or not; a KML file is a .kml document or a .kmz container     *)
(* whose .kml members all hold the same document.                          *)

MaxFiles == 2       \* files discovery returns, of all types together

JsonFile(readable, data) == [readable |-> readable, data |-> data]
GpxFile(header, doc) == [header |-> header, doc |-> doc]
KmlFile(ext, namelist, doc) == [ext |-> ext, namelist |-> namelist, doc |-> doc]

\* validate_json_data: "raises" is the TypeError of  'startTime' in data[0]
\* when data[0] is a number, a boolean or null
validate_json_data(data) ==
    IF data.kind = "dict" /\ data.hasSegments THEN "true"
    ELSE IF data.kind = "list" /\ Len(data.elems) > 0
         THEN IF data.elems[1].kind \in {"num", "null"} THEN "raises"
              ELSE IF data.elems[1].st THEN "true" ELSE "false"
         ELSE "false"

\* process_json_files, the body of the loop for one file: the exception of
\* validate_json_data leaves the loop, every other defect is a continue
process_json_file(file) ==
    IF ~file.readable THEN "skipped"
    ELSE LET valid == validate_json_data(file.data)
         IN  IF valid = "raises" THEN "raised"
             ELSE IF valid = "false" THEN "skipped"
             ELSE IF parse_json_data(file.data).records = <<>> THEN "skipped"
             ELSE "appended"

\* process_gpx_files, the body of the loop for one file
process_gpx_file(file) ==
    IF ~file.header THEN "skipped"
    ELSE IF parse_gpx_content(file.doc).records = <<>> THEN "skipped"
    ELSE "appended"

\* main, the body of the KML loop for one file: every exception is caught
process_kml_file(file, fastkml) ==
    IF file.ext = ".kmz" /\ _read_kml_bytes(file.namelist).raised # "no"
    THEN "skipped"
    ELSE LET result == parse_kml_file(file.doc, fastkml)
         IN  IF result.raised \/ result.records = <<>> THEN "skipped"
             ELSE "appended"

-----------------------------------------------------------------------------
(* Paths.  A path is a sequence of pieces: the separators "/" and "\", the  *)
(* dot ".", the underscore "_", the prefixes "username-", "user-" and       *)
(* "USER-", and words without any of these characters.  os.path is          *)
(* posixpath or ntpath, whichever the platform of the run provides.         *)

MaxDirs == 2        \* directories in front of a file name

USERNAME == <<"testuser">>

\* the separators os.path.basename and os.path.splitext cut at
path_seps(module) == IF module = "ntpath" THEN {"/", "\\"} ELSE {"/"}

RECURSIVE basename(_, _)
\* os.path.basename(p): what follows the last separator
basename(module, p) ==
    IF \E i \in 1..Len(p) : p[i] \in path_seps(module)
    THEN basename(module, Tail(p))
    ELSE p

\* the position of the last dot that has a piece other than a dot and a
\* separator somewhere before it inside the last component, or 0
last_ext_dot(module, p) ==
    LET dots == {i \in 1..Len(p) :
                    /\ p[i] = "."
                    /\ \A j \in i..Len(p) : p[j] \notin path_seps(module)
                    /\ \E j \in 1..(i - 1) :
                          /\ p[j] # "."
                          /\ \A k \in j..i : p[k] \notin path_seps(module)}
    IN  IF dots = {} THEN 0 ELSE CHOOSE i \in dots : \A j \in dots : j <= i

\* os.path.splitext(p)[0]
splitext_root(module, p) ==
    IF last_ext_dot(module, p) = 0 THEN p
    ELSE SubSeq(p, 1, last_ext_dot(module, p) - 1)

\* str.lower() of the first piece
LowerPrefix(piece) == IF piece = "USER-" THEN "user-" ELSE piece

\* s.lower().startswith(prefix)
startswith_lower(s, prefix) == s # <<>> /\ LowerPrefix(s[1]) = prefix

RECURSIVE before_underscore(_)
\* s.split('_')[0]
before_underscore(s) ==
    IF s = <<>> \/ Head(s) = "_" THEN <<>>
    ELSE <<Head(s)>> \o before_underscore(Tail(s))

\* get_username_from_filename under the os.path of the platform
get_username_from_filename(module, path) ==
    LET filename_without_ext == splitext_root(module, basename(module, path))
    IN  IF startswith_lower(filename_without_ext, "username-")
        THEN Tail(filename_without_ext)
        ELSE IF startswith_lower(filename_without_ext, "user-")
        THEN Tail(filename_without_ext)
        ELSE IF \E i \in 1..Len(filename_without_ext) : filename_without_ext[i] = "_"
        THEN before_underscore(filename_without_ext)
        ELSE USERNAME

Document(format, body) == [format |-> format, body |-> body]

IdleParse ==
    /\ document = Document("none", <<>>)
    /\ dialect = "none"
    /\ parse_result = Returned(<<>>)

-----------------------------------------------------------------------------
-----------------------------------------------------------------------------
(* convert_records_to_dataframe, validate_output_data and export_to_csv.   *)
(* A record handed to the conversion is a mapping from the keys of a       *)
(* parser's records to option values; its time values are timestamp        *)
(* strings, its coordinates what float() returned.                         *)

MaxRecords == 2     \* records handed to convert_records_to_dataframe

CSV_COLUMNS ==
    << "type", "start_time", "end_time", "point_time", "latitude", "longitude",
       "visit_probability", "visit_placeId", "visit_semanticType",
       "activity_distanceMeters", "activity_type", "activity_probability",
       "username", "_gpx_data_source", "_gpx_track_name", "_gpx_elevation",
       "_gpx_speed", "_gpx_point_sequence" >>

\* the keys of the records of the model
FrameColumns == RecordColumns \cup {"latitude", "longitude", "activity_type", "username"}

numeric_columns == {"latitude", "longitude"}

\* normalize_numeric_value on None or a float: float(value) is the value
normalize_numeric_value(value) == IF value = None THEN None ELSE Some(value[1])

\* df.replace({np.nan: None}) on one cell
replace_nan(value) == IF value = Some(NaN) THEN None ELSE value

\* convert_timestamp_to_utc applied to a cell: None is falsy and stays None
time_cell(value) == IF value = None THEN None ELSE convert_timestamp_to_utc(value[1])

convert_records_to_dataframe(records) ==
    IF records = <<>> THEN EmptyDataFrame
    ELSE [cols |-> FrameColumns,
          rows |-> [i \in 1..Len(records) |->
                      [c \in FrameColumns |->
                          IF c \in TimeColumns THEN time_cell(records[i][c])
                          ELSE IF c \in numeric_columns
                               THEN replace_nan(normalize_numeric_value(records[i][c]))
                          ELSE records[i][c]]]]

\* validate_output_data
validate_output_data(df) ==
    /\ ~df_empty(df)
    /\ {"type", "username"} \subseteq df.cols
    /\ ~isna_all(_safe_series(df, "type"))

\* export_to_csv: the header written, None when nothing is written
export_to_csv(df) ==
    IF df_empty(df) THEN None
    ELSE Some(SelectSeq(CSV_COLUMNS, LAMBDA col : col \in df.cols))

-----------------------------------------------------------------------------
(* Inputs of the merge specification *)

Row(pt, st, et) ==
    [c \in RecordColumns |->
        CASE c = "type" -> Some("rec")
          [] c = "point_time" -> pt
          [] c = "start_time" -> st
          [] c = "end_time" -> et]

\* Representative canonical records: untimed, point samples at two
\* instants, a span keyed by its start, a record with only an end, and a
\* path sample whose point_time differs from its segment's start_time.
RowUniverse ==
    { Row(None, None, None),
      Row(Some(1), None, None), Row(Some(2), None, None),
      Row(None, Some(2), Some(3)),
      Row(None, None, Some(1)),
      Row(Some(3), Some(1), Some(3)) }

\* the ways to cut n rows into nb consecutive batches (a batch may be empty)
BatchSizes(nb, n) ==
    {sz \in [1..nb -> 0..n] :
        LET RECURSIVE sum(_)
            sum(k) == IF k = 0 THEN 0 ELSE sz[k] + sum(k - 1)
        IN  sum(nb) = n}

RECURSIVE offset(_, _)
offset(sz, b) == IF b = 1 THEN 0 ELSE sz[b - 1] + offset(sz, b - 1)

\* the batch list that holds the rows rs cut into batches of the sizes sz
MakeBatches(rs, sz) ==
    [b \in DOMAIN sz |->
        [cols |-> RecordColumns,
         rows |-> [i \in 1..sz[b] |-> rs[offset(sz, b) + i]]]]

-----------------------------------------------------------------------------
(* Specification of merge and order: combine_dataframes, then              *)
(* sort_dataframe_by_time, as main() calls them.                           *)

Init ==
    /\ IdleTrack
    /\ IdleFile
    /\ pc = "batches"
    /\ \E n \in 0..MaxRows, nb \in 0..MaxBatches :
          \E rs \in [1..n -> RowUniverse], sz \in BatchSizes(nb, n) :
             dataframes = MakeBatches(rs, sz)
    /\ combined_df = EmptyDataFrame
    /\ sorted_indices = <<>>
    /\ sorted_df = EmptyDataFrame
    /\ IdleTime
    /\ IdleGeo
    /\ IdleParse

Combine ==
    /\ pc = "batches"
    /\ combined_df' = combine_dataframes(dataframes)
    /\ pc' = "combined"
    /\ UNCHANGED <<dataframes, sorted_indices, sorted_df, timeVars, geoVars, parseVars, trackVars, fileVars>>

SortByTime ==
    /\ pc = "combined"
    /\ \E idx \in sort_index_choices(combined_df) :
          /\ sorted_indices' = idx
          /\ sorted_df' = sort_dataframe_by_time(combined_df, idx)
    /\ pc' = "sorted"
    /\ UNCHANGED <<dataframes, combined_df, timeVars, geoVars, parseVars, trackVars, fileVars>>

Next == Combine \/ SortByTime

Spec == Init /\ [][Next]_vars

-----------------------------------------------------------------------------
(* Properties of merge and order (checked under Spec) *)

\* the derived time key of a record: point_time if non-null, else
\* start_time if non-null, else end_time; a missing field counts as null
Field(r, c) == IF c \in DOMAIN r THEN r[c] ELSE None

TimeKey(r) ==
    IF Field(r, "point_time") # None THEN Field(r, "point_time")
    ELSE IF Field(r, "start_time") # None THEN Field(r, "start_time")
    ELSE Field(r, "end_time")

Identity(n) == [i \in 1..n |-> i]

HasTimed(df) == \E i \in DOMAIN df.rows : TimeKey(df.rows[i]) # None
HasUntimed(df) == \E i \in DOMAIN df.rows : TimeKey(df.rows[i]) = None

\* C1: when at least one merged record has a time, the sorted frame holds
\* as many records as the merged one, every two timed records appear in
\* ascending order of their time key, and every record with no time key
\* comes after every timed record.
C1_SortedByTimeKey ==
    (pc = "sorted" /\ HasTimed(combined_df)) =>
        /\ Len(sorted_df.rows) = Len(combined_df.rows)
        /\ \A i, j \in DOMAIN sorted_df.rows : i < j =>
              LET ki == TimeKey(sorted_df.rows[i])
                  kj == TimeKey(sorted_df.rows[j])
              IN  /\ (ki # None /\ kj # None) => ki[1] <= kj[1]
                  /\ ki = None => kj = None

C1_Witness ==
    /\ pc = "sorted"
    /\ HasTimed(combined_df) /\ HasUntimed(combined_df)
    /\ sorted_indices # Identity(Len(combined_df.rows))
    /\ \E i \in DOMAIN combined_df.rows :
          /\ Field(combined_df.rows[i], "point_time") = None
          /\ Field(combined_df.rows[i], "start_time") = None
          /\ Field(combined_df.rows[i], "end_time") # None
    /\ \E i \in DOMAIN combined_df.rows :
          /\ Field(combined_df.rows[i], "point_time") # None
          /\ Field(combined_df.rows[i], "start_time") # None
          /\ Field(combined_df.rows[i], "point_time")
                # Field(combined_df.rows[i], "start_time")

\* C2: the sort is stable: two records with equal time key (or both with
\* no time key) keep the relative order they had in the concatenation.
C2_StableSort ==
    pc = "sorted" =>
        \A i, j \in DOMAIN sorted_df.rows : i < j =>
            (TimeKey(sorted_df.rows[i]) = TimeKey(sorted_df.rows[j])
                => sorted_indices[i] < sorted_indices[j])

Permute(dfs, p) == [k \in DOMAIN dfs |-> dfs[p[k]]]

AllRows(dfs) ==
    {<<k, i>> \in (DOMAIN dfs) \X (1..MaxRows + 1) : i \in DOMAIN dfs[k].rows}

DistinctKeys(dfs) ==
    /\ \A x \in AllRows(dfs) : TimeKey(dfs[x[1]].rows[x[2]]) # None
    /\ \A x, y \in AllRows(dfs) :
          x # y => TimeKey(dfs[x[1]].rows[x[2]]) # TimeKey(dfs[y[1]].rows[y[2]])

SortResults(df) ==
    {sort_dataframe_by_time(df, idx) : idx \in sort_index_choices(df)}

\* C3: for batches whose records have pairwise distinct time keys, merge
\* then sort yields the same record sequence for every permutation of the
\* batch list.
C3_BatchOrderIndependent ==
    (pc = "sorted" /\ DistinctKeys(dataframes)) =>
        \A p \in Permutations1(Len(dataframes)) :
            SortResults(combine_dataframes(Permute(dataframes, p))) = {sorted_df}

C3_Witness ==
    /\ pc = "sorted"
    /\ Len(dataframes) = 3
    /\ \A k \in 1..3 : Len(dataframes[k].rows) = 1
    /\ DistinctKeys(dataframes)
    /\ \A k \in 1..3 : dataframes[k].rows[1]["point_time"] # None
    /\ sorted_indices = <<2, 1, 3>>

NonEmptyBatches == SelectSeq(dataframes, LAMBDA d : ~df_empty(d))

RECURSIVE CountRows(_)
CountRows(dfs) ==
    IF dfs = <<>> THEN 0 ELSE Len(Head(dfs).rows) + CountRows(Tail(dfs))

RECURSIVE ColumnValues(_, _)
\* the values of column c over the batches, in arrival order
ColumnValues(dfs, c) ==
    IF dfs = <<>> THEN <<>>
    ELSE [i \in DOMAIN Head(dfs).rows |-> Field(Head(dfs).rows[i], c)]
         \o ColumnValues(Tail(dfs), c)

HoldsValue(dfs, c) ==
    \E k \in DOMAIN dfs : \E i \in DOMAIN dfs[k].rows : Field(dfs[k].rows[i], c) # None

\* C4: the merged frame has exactly the columns that hold a value in some
\* non-empty batch (a column null everywhere is absent), each with the
\* batches' values unchanged and in arrival order, and as many rows as the
\* non-empty batches hold together.
C4_CombineDropsAllNaColumns ==
    pc = "combined" =>
        /\ combined_df.cols = {c \in RecordColumns : HoldsValue(NonEmptyBatches, c)}
        /\ Len(combined_df.rows) = CountRows(NonEmptyBatches)
        /\ \A c \in combined_df.cols :
              [i \in DOMAIN combined_df.rows |-> combined_df.rows[i][c]]
                 = ColumnValues(NonEmptyBatches, c)

C4_Witness ==
    /\ pc = "combined"
    /\ Len(NonEmptyBatches) >= 2
    /\ Len(NonEmptyBatches) < Len(dataframes)
    /\ "end_time" \notin combined_df.cols
    /\ "point_time" \in combined_df.cols
    /\ \E k \in DOMAIN dataframes :
          /\ ~df_empty(dataframes[k])
          /\ ~HoldsValue(<<dataframes[k]>>, "point_time")

\* C5: when no merged record has any time, sorting returns the merged
\* records as they are, in concatenation order.
C5_NoTimeKeepsConcatenation ==
    (pc = "sorted" /\ ~HasTimed(combined_df)) =>
        /\ sorted_df = combined_df
        /\ sorted_indices = Identity(Len(combined_df.rows))

C5_Witness ==
    /\ pc = "sorted"
    /\ ~HasTimed(combined_df)
    /\ Len(combined_df.rows) >= 2
    /\ combined_df.cols \cap TimeColumns = {}
    /\ sorted_df.rows = combined_df.rows

-----------------------------------------------------------------------------
(* Specification of time normalization: one timestamp through              *)
(* convert_timestamp_to_utc.                                               *)

InitNormalize ==
    /\ IdleTrack
    /\ IdleFile
    /\ pc = "timestamp"
    /\ timestamp_str \in TimestampInputs
    /\ normalized = None
    /\ IdleMerge
    /\ IdleGeo
    /\ IdleParse

ConvertTimestamp ==
    /\ pc = "timestamp"
    /\ normalized' = convert_timestamp_to_utc(timestamp_str)
    /\ pc' = "normalized"
    /\ UNCHANGED <<timestamp_str, mergeVars, geoVars, parseVars, trackVars, fileVars>>

NextNormalize == ConvertTimestamp

SpecNormalize == InitNormalize /\ [][NextNormalize]_vars

\* the wall-clock reading of the instant u (hours, UTC) in a zone
WallClock(u, zone) == u + zone

Aware(wall, off) == [kind |-> "aware", wall |-> wall, off |-> off]

\* C6: an empty or unparsable timestamp normalizes to null; a naive one to
\* the instant whose INPUT_TIMEZONE wall-clock reading it is, read off in
\* OUTPUT_TIMEZONE; one carrying a zone to its own instant, read off in
\* OUTPUT_TIMEZONE.
C6_NormalizeTimestamp ==
    pc = "normalized" =>
        LET t == timestamp_str
        IN  /\ t.kind \in {"empty", "unparsable"} => normalized = None
            /\ t.kind = "naive" =>
                  \E u \in (0 - 24)..(MaxWall + 24) :
                      /\ WallClock(u, INPUT_TIMEZONE) = t.wall
                      /\ normalized = Some(WallClock(u, OUTPUT_TIMEZONE))
            /\ t.kind = "aware" =>
                  \E u \in (0 - 24)..(MaxWall + 24) :
                      /\ WallClock(u, t.off) = t.wall
                      /\ normalized = Some(WallClock(u, OUTPUT_TIMEZONE))

C6_Witness ==
    /\ pc = "normalized"
    /\ timestamp_str.kind = "naive"
    /\ normalized # None
    /\ normalized # Some(timestamp_str.wall)

\* C7 as stated: the naive timestamp that expresses an instant in the
\* output zone and the input-zone timestamp of the same instant normalize
\* to the same naive instant.
C7_SameInstantSameResult ==
    (pc = "normalized" /\ timestamp_str.kind = "naive") =>
        LET u == timestamp_str.wall - OUTPUT_TIMEZONE
        IN  normalized
              = convert_timestamp_to_utc(
                    Aware(WallClock(u, INPUT_TIMEZONE), INPUT_TIMEZONE))

\* C7 amended: a naive timestamp and the timestamp with the same wall-clock
\* reading marked as INPUT_TIMEZONE normalize to the same naive instant,
\* which lies INPUT_TIMEZONE - OUTPUT_TIMEZONE hours before the
\* normalization of the instant the naive reading names in the output zone.
C7_NaiveReadAsInputZone ==
    (pc = "normalized" /\ timestamp_str.kind = "naive") =>
        LET u == timestamp_str.wall - OUTPUT_TIMEZONE
        IN  /\ normalized
                 = convert_timestamp_to_utc(Aware(timestamp_str.wall, INPUT_TIMEZONE))
            /\ normalized[1] + (INPUT_TIMEZONE - OUTPUT_TIMEZONE)
                 = convert_timestamp_to_utc(
                       Aware(WallClock(u, INPUT_TIMEZONE), INPUT_TIMEZONE))[1]

C7_Witness ==
    /\ pc = "normalized"
    /\ timestamp_str.kind = "naive"
    /\ normalized = Some(timestamp_str.wall - INPUT_TIMEZONE)

-----------------------------------------------------------------------------
(* Specification of coordinate-string parsing: one value through           *)
(* extract_geo_coordinates and through the Android dialect's parse.        *)

InitGeo ==
    /\ IdleTrack
    /\ IdleFile
    /\ pc = "coordinate"
    /\ \/ geo_str = NotAString
       \/ geo_str \in {Str(GeoExample), Str(DegreeExample)}
       \/ \E k \in 0..MaxTokens : \E toks \in [1..k -> GeoAlphabet] :
             geo_str = Str(toks)
    /\ geo_iphone = <<None, None>>
    /\ geo_android = <<None, None>>
    /\ IdleMerge
    /\ IdleTime
    /\ IdleParse

ParseCoordinates ==
    /\ pc = "coordinate"
    /\ geo_iphone' = extract_geo_coordinates(geo_str)
    /\ geo_android' = android_lat_lng(geo_str)
    /\ pc' = "coordinate_parsed"
    /\ UNCHANGED <<geo_str, mergeVars, timeVars, parseVars, trackVars, fileVars>>

NextGeo == ParseCoordinates

SpecGeo == InitGeo /\ [][NextGeo]_vars

Commas(toks) == Len(SelectSeq(toks, LAMBDA x : x \in {",", ", "}))

\* the text before the first comma and the text between the first and the
\* second comma (or the end), each without prefix, degree sign or blanks
RECURSIVE UpToComma(_)
UpToComma(toks) ==
    IF toks = <<>> \/ Head(toks) \in {",", ", "} THEN <<>>
    ELSE <<Head(toks)>> \o UpToComma(Tail(toks))

RECURSIVE AfterComma(_)
AfterComma(toks) ==
    IF toks = <<>> THEN <<>>
    ELSE IF Head(toks) \in {",", ", "} THEN Tail(toks)
    ELSE AfterComma(Tail(toks))

IsNumber(part) == Len(part) = 1 /\ part[1] \in NumberTokens

-----------------------------------------------------------------------------
(* Specification of the format parsers: one source document through the    *)
(* parser of its format.                                                   *)

JsonDocuments ==
    {JsonData("scalar", FALSE, <<>>), JsonData("null", FALSE, <<>>),
     JsonData("dict", FALSE, <<>>)}
    \cup UNION {{JsonData("list", FALSE, es), JsonData("dict", TRUE, es)} :
                  es \in UNION {[1..k -> ElementUniverse] : k \in 0..MaxSegments}}

\* three positions of the 139th meridian: on the equator (latitude 0.0),
\* and 0.9 and 1.8 degrees (100 km and 200 km) north of it
Places == {Place(0, 13900), Place(90, 13900), Place(180, 13900)}

PointUniverse ==
    { GpxPoint(Some(Place(90, 13900)), Value(0), Value(DateTime(TRUE, 0))),
      GpxPoint(Some(Place(180, 13900)), Value(101), Value(DateTime(TRUE, 1800))),
      GpxPoint(Some(Place(90, 13900)), Absent, Value(DateTime(FALSE, 3600))),
      GpxPoint(Some(Place(180, 13900)), Absent, Bad),
      GpxPoint(Some(Place(90, 13900)), Bad, Value(DateTime(TRUE, 3600))),
      GpxPoint(None, Value(0), Value(DateTime(TRUE, 1800))) }

PointLists(n) == UNION {[1..k -> PointUniverse] : k \in 0..n}

\* the ways to cut a point list into at most two <trkseg>
Segments(points) ==
    {<<points>>} \cup
    {<<SubSeq(points, 1, k), SubSeq(points, k + 1, Len(points))>> :
        k \in 0..Len(points)}

TrackNames == {<<"Track">>, <<"yama">>}
FileNames == {<<"log">>, <<"walk">>}

GpxTracks ==
    UNION {{GpxTrack(name, segs) : name \in TrackNames, segs \in Segments(ps)} :
             ps \in PointLists(MaxPoints)}

\* three tracks of two points: a sound one, one that mixes an aware and a
\* naive time, one with a point whose <ele> is not a number
SmallTracks ==
    { GpxTrack(<<"Track">>,
        <<<<GpxPoint(Some(Place(90, 13900)), Value(0), Value(DateTime(TRUE, 0))),
            GpxPoint(Some(Place(180, 13900)), Value(101), Value(DateTime(TRUE, 1800)))>>>>),
      GpxTrack(<<"Track">>,
        <<<<GpxPoint(Some(Place(90, 13900)), Value(0), Value(DateTime(TRUE, 0))),
            GpxPoint(Some(Place(90, 13900)), Absent, Value(DateTime(FALSE, 3600)))>>>>),
      GpxTrack(<<"yama">>,
        <<<<GpxPoint(Some(Place(90, 13900)), Bad, Value(DateTime(TRUE, 3600))),
            GpxPoint(Some(Place(180, 13900)), Absent, Bad)>>>>) }

GpxDocuments ==
    {GpxDoc(FALSE, "gpx", <<"log">>, <<>>, <<>>),
     GpxDoc(TRUE, "other", <<"log">>, <<>>, <<>>)}
    \cup {GpxDoc(TRUE, "gpx", f, ts, ws) :
            f \in FileNames,
            ts \in {<<>>} \cup {<<t>> : t \in GpxTracks},
            ws \in PointLists(1)}
    \cup {GpxDoc(TRUE, "gpx", <<"log">>, <<t1, t2>>, ws) :
            t1 \in SmallTracks, t2 \in SmallTracks, ws \in PointLists(1)}

GxTimes == {10, 20}
GxCoords == {Value(1), Value(2), Bad, Absent}

GxTracks ==
    {GxTrack(w, c) :
        w \in UNION {[1..m -> GxTimes] : m \in 0..MaxPairs},
        c \in UNION {[1..n -> GxCoords] : n \in 0..MaxPairs}}

\* the two tracks of a gx:MultiTrack
MultiTracks ==
    {<<GxTrack(<<10>>, <<Value(1)>>), t>> :
        t \in {GxTrack(<<20>>, <<Value(2)>>), GxTrack(<<20>>, <<Bad>>),
               GxTrack(<<20, 10>>, <<Absent>>)}}

PlacemarkUniverse ==
    { Placemark(PlacemarkTime(Some(30), None, None), "point", <<Value(3)>>, 0),
      Placemark(PlacemarkTime(None, Some(30), Some(40)), "linestring",
                <<Value(4), Value(5)>>, 1),
      Placemark(PlacemarkTime(Some(30), None, None), "point", <<Bad>>, 0),
      Placemark(NoTime, "linestring", <<Value(6), Bad>>, 0),
      Placemark(NoTime, "point", <<Value(7)>>, 2) }

KmlDocuments ==
    {KmlDoc(FALSE, "kml", <<>>, <<>>), KmlDoc(TRUE, "other", <<>>, <<>>)}
    \cup {KmlDoc(TRUE, "kml", ts, pms) :
            ts \in {<<>>} \cup {<<t>> : t \in GxTracks} \cup MultiTracks,
            pms \in UNION {[1..n -> PlacemarkUniverse] : n \in 0..MaxPlacemarks}}

InitParse ==
    /\ IdleTrack
    /\ IdleFile
    /\ pc = "document"
    /\ \/ \E d \in JsonDocuments : document = Document("json", d)
       \/ \E d \in GpxDocuments : document = Document("gpx", d)
       \/ \E d \in KmlDocuments : document = Document("kml", d)
    /\ dialect = "none"
    /\ parse_result = Returned(<<>>)
    /\ IdleMerge
    /\ IdleTime
    /\ IdleGeo

ParseJsonData ==
    /\ pc = "document"
    /\ document.format = "json"
    /\ dialect' = json_dialect(document.body)
    /\ parse_result' = parse_json_data(document.body)
    /\ pc' = "parsed"
    /\ UNCHANGED <<document, mergeVars, timeVars, geoVars, trackVars, fileVars>>

ParseGpxContent ==
    /\ pc = "document"
    /\ document.format = "gpx"
    /\ parse_result' = parse_gpx_content(document.body)
    /\ pc' = "parsed"
    /\ UNCHANGED <<document, dialect, mergeVars, timeVars, geoVars, trackVars, fileVars>>

ParseKmlFile ==
    /\ pc = "document"
    /\ document.format = "kml"
    /\ \E fastkml \in FastkmlOutcomes(document.body) :
          parse_result' = parse_kml_file(document.body, fastkml)
    /\ pc' = "parsed"
    /\ UNCHANGED <<document, dialect, mergeVars, timeVars, geoVars, trackVars, fileVars>>

NextParse == ParseJsonData \/ ParseGpxContent \/ ParseKmlFile

SpecParse == InitParse /\ [][NextParse]_vars

\* a list whose first element is a mapping with a startTime key
IPhoneShaped(d) ==
    /\ d.kind = "list" /\ Len(d.elems) > 0
    /\ d.elems[1].kind = "dict" /\ d.elems[1].st

\* a mapping with a semanticSegments key
AndroidShaped(d) == d.kind = "dict" /\ d.hasSegments

Malformed(doc) ==
    CASE doc.format = "json" -> ~IPhoneShaped(doc.body) /\ ~AndroidShaped(doc.body)
      [] doc.format = "gpx" -> ~doc.body.wellformed \/ doc.body.root # "gpx"
      [] doc.format = "kml" -> ~doc.body.wellformed \/ doc.body.root # "kml"
      [] OTHER -> FALSE

\* C8: for every malformed document (wrong JSON shape, XML that is not
\* well-formed, XML that is not GPX/KML) the format parser raises nothing
\* and returns an empty list.
C8_MalformedYieldsEmpty ==
    (pc = "parsed" /\ Malformed(document)) =>
        /\ ~parse_result.raised
        /\ parse_result.records = <<>>

\* C9: a non-empty list whose first element has a startTime key goes to the
\* iPhone parser, a mapping with semanticSegments to the Android parser,
\* and every other JSON input yields an empty list, nothing raised.
C9_DialectDetection ==
    (pc = "parsed" /\ document.format = "json") =>
        LET d == document.body
        IN  /\ IPhoneShaped(d) =>
                  /\ dialect = "iphone"
                  /\ ~parse_iphone_data(d.elems).raised
                        => parse_result = parse_iphone_data(d.elems)
            /\ AndroidShaped(d) =>
                  /\ dialect = "android"
                  /\ ~parse_android_data(d.elems).raised
                        => parse_result = parse_android_data(d.elems)
            /\ (~IPhoneShaped(d) /\ ~AndroidShaped(d)) =>
                  parse_result = Returned(<<>>)
            /\ ~parse_result.raised

C9_Witness ==
    /\ pc = "parsed"
    /\ document.format = "json"
    /\ IPhoneShaped(document.body)
    /\ Len(document.body.elems) = 2
    /\ dialect = "iphone"
    /\ Len(parse_result.records) = 2

\* the outcome of the dialect's loop body for one segment
segment_outcome(d, seg) ==
    IF d.kind = "list" THEN iphone_segment(seg) ELSE android_segment(seg)

\* C11: in a timeline document of either dialect, a defect confined to one
\* segment (a malformed coordinate, a non-numeric probability, a segment
\* that is not a mapping) costs that segment's records only: every record
\* of every sound segment is still returned.
C11_DefectLosesOneSegmentOnly ==
    (pc = "parsed" /\ document.format = "json"
       /\ (IPhoneShaped(document.body) \/ AndroidShaped(document.body))) =>
        \A i \in 1..Len(document.body.elems) :
            LET o == segment_outcome(document.body, document.body.elems[i])
            IN  ~o.raised =>
                  \A k \in 1..Len(o.records) :
                     \E j \in 1..Len(parse_result.records) :
                        parse_result.records[j] = o.records[k]

RECURSIVE Flatten(_)
Flatten(ss) == IF ss = <<>> THEN <<>> ELSE Head(ss) \o Flatten(Tail(ss))

\* the <trkpt> of a track whose lat and lon parse, in document order
LocatedPoints(track) == SelectSeq(Flatten(track.segments), LAMBDA p : p.pos # None)

RECURSIVE LocatedPointsOfTracks(_)
LocatedPointsOfTracks(tracks) ==
    IF tracks = <<>> THEN <<>>
    ELSE LocatedPoints(Head(tracks)) \o LocatedPointsOfTracks(Tail(tracks))

RecordsOfType(records, type) == SelectSeq(records, LAMBDA r : r.type = type)

IsGpx(doc) == doc.format = "gpx" /\ doc.body.wellformed /\ doc.body.root = "gpx"

\* C12: the gpx_trackpoint records of a document are, in document order
\* across all segments, exactly the <trkpt> whose lat and lon parse (a defect
\* of a point's <ele> or <time> does not remove the point), and the records
\* of one track share activity_type and visit_semanticType.
C12_OneRecordPerLocatedPoint ==
    (pc = "parsed" /\ IsGpx(document)) =>
        LET expected == LocatedPointsOfTracks(document.body.tracks)
            got == RecordsOfType(parse_result.records, "gpx_trackpoint")
        IN  /\ Len(got) = Len(expected)
            /\ \A i \in 1..Len(got) :
                  /\ got[i].latitude = Some(expected[i].pos[1].lat)
                  /\ got[i].longitude = Some(expected[i].pos[1].lon)
            /\ Len(document.body.tracks) = 1 =>
                  \A i, j \in 1..Len(got) :
                     /\ got[i].activity_type = got[j].activity_type
                     /\ got[i].visit_semanticType = got[j].visit_semanticType

\* the <wpt> of a document that have a position
LocatedWaypoints(doc) == SelectSeq(doc.waypoints, LAMBDA w : w.pos # None)

\* C13: a <wpt> whose lat or lon is missing or unparsable gives no record
\* and no exception and leaves the records of the tracks as they are
\* without it; every other <wpt> gives exactly one gpx_waypoint record whose
\* start_time, end_time and point_time all equal its own timestamp.
C13_WaypointFailsAlone ==
    (pc = "parsed" /\ IsGpx(document)) =>
        LET doc == document.body
            expected == LocatedWaypoints(doc)
            got == RecordsOfType(parse_result.records, "gpx_waypoint")
        IN  /\ ~parse_result.raised
            /\ RecordsOfType(parse_result.records, "gpx_trackpoint")
                 = parse_gpx_content([doc EXCEPT !.waypoints = <<>>]).records
            /\ Len(got) = Len(expected)
            /\ \A i \in 1..Len(got) :
                  /\ got[i].latitude = Some(expected[i].pos[1].lat)
                  /\ got[i].point_time = point_time(expected[i].time)
                  /\ got[i].start_time = got[i].point_time
                  /\ got[i].end_time = got[i].point_time

-----------------------------------------------------------------------------
(* Specification of calculate_speeds: a list of trackpoints, as            *)
(* process_track builds it, through the function.                          *)

SpeedTimes ==
    {None, Some(DateTime(TRUE, 0)), Some(DateTime(TRUE, 1800)),
     Some(DateTime(TRUE, 3600)), Some(DateTime(FALSE, 1800))}

\* trackpoints without a speed: a missing position, or one of Places
SpeedPoints ==
    {Trackpoint(None, None, None, t, 0, 0, None) : t \in SpeedTimes}
    \cup {Trackpoint(Some(p.lat), Some(p.lon), None, t, 0, 0, None) :
            p \in Places, t \in SpeedTimes}

InitSpeeds ==
    /\ pc = "trackpoints"
    /\ gpx_filename = <<>>
    /\ gpx_track_name = <<>>
    /\ gpx_trackpoints \in UNION {[1..n -> SpeedPoints] : n \in 0..MaxTrackpoints}
    /\ gpx_activity_type = "none"
    /\ gpx_semantic_type = "none"
    /\ IdleMerge
    /\ IdleTime
    /\ IdleGeo
    /\ IdleFile
    /\ IdleParse

CalculateSpeeds ==
    /\ pc = "trackpoints"
    /\ gpx_trackpoints' = calculate_speeds(gpx_trackpoints)
    /\ pc' = "speeds"
    /\ UNCHANGED <<gpx_filename, gpx_track_name, gpx_activity_type, gpx_semantic_type,
                   mergeVars, timeVars, geoVars, parseVars, fileVars>>

NextSpeeds == CalculateSpeeds

SpecSpeeds == InitSpeeds /\ [][NextSpeeds]_vars

\* both points have coordinates and times, and the times can be subtracted
ValidPair(a, b) ==
    /\ a.latitude # None /\ a.longitude # None
    /\ b.latitude # None /\ b.longitude # None
    /\ a.point_time # None /\ b.point_time # None
    /\ a.point_time[1].aware = b.point_time[1].aware

Elapsed(a, b) == b.point_time[1].t - a.point_time[1].t

\* distance / elapsed in metres per hour
RawSpeed(a, b) ==
    (haversine_distance(a.latitude[1], a.longitude[1], b.latitude[1], b.longitude[1])
       * 3600) \div Elapsed(a, b)

\* C14: every trackpoint gets a speed in [0, 200] km/h: the first gets 0; a
\* point whose pair with its predecessor has valid coordinates and times and
\* a positive elapsed time gets min(distance / elapsed, 200 km/h); a pair
\* with non-positive elapsed time or a missing coordinate or time gets 0.
C14_SpeedOfEveryPoint ==
    pc = "speeds" =>
        \A i \in 1..Len(gpx_trackpoints) :
            LET speed == gpx_trackpoints[i].speed
            IN  /\ speed # None
                /\ speed[1] >= 0 /\ speed[1] <= SpeedCeiling * KmH
                /\ i = 1 => speed[1] = 0
                /\ i > 1 =>
                     LET a == gpx_trackpoints[i - 1]
                         b == gpx_trackpoints[i]
                     IN  IF ValidPair(a, b) /\ Elapsed(a, b) > 0
                         THEN speed[1] = Min(RawSpeed(a, b), SpeedCeiling * KmH)
                         ELSE speed[1] = 0

\* the part of C14 that holds: every speed is in [0, 200] km/h, the first is 0
C14_SpeedInRange ==
    pc = "speeds" =>
        \A i \in 1..Len(gpx_trackpoints) :
            /\ gpx_trackpoints[i].speed # None
            /\ gpx_trackpoints[i].speed[1] \in 0..(SpeedCeiling * KmH)
            /\ i = 1 => gpx_trackpoints[i].speed[1] = 0

\* the times of the located points of a track that process_track keeps
KeptTimes(got) ==
    {got[i].point_time[1] : i \in {k \in 1..Len(got) : got[k].point_time # None}}

\* C15: the gpx_trackpoint records of a track share start_time = the minimum
\* and end_time = the maximum of the track's non-null point times (both null
\* when no point has a time), so start_time <= point_time <= end_time for
\* every record with a point_time.
C15_TrackTimeBounds ==
    (pc = "parsed" /\ IsGpx(document) /\ Len(document.body.tracks) = 1) =>
        LET got == RecordsOfType(parse_result.records, "gpx_trackpoint")
            times == KeptTimes(got)
        IN  \A i \in 1..Len(got) :
               /\ got[i].start_time = got[1].start_time
               /\ got[i].end_time = got[1].end_time
               /\ times = {} => got[i].start_time = None /\ got[i].end_time = None
               /\ times # {} =>
                     /\ got[i].start_time # None /\ got[i].start_time[1] \in times
                     /\ got[i].end_time # None /\ got[i].end_time[1] \in times
                     /\ \A x \in times :
                           /\ got[i].start_time[1].t <= x.t
                           /\ x.t <= got[i].end_time[1].t

C15_Witness ==
    /\ pc = "parsed"
    /\ IsGpx(document)
    /\ Len(document.body.tracks) = 1
    /\ LET got == RecordsOfType(parse_result.records, "gpx_trackpoint")
       IN  /\ Len(got) = 2
           /\ got[1].point_time # None /\ got[2].point_time # None
           /\ got[1].start_time # got[1].end_time
           /\ got[2].point_time = got[2].start_time

-----------------------------------------------------------------------------
(* Specification of classify_activity: a file name, a track name and a     *)
(* list of trackpoints through the function.                               *)

Words(alphabet) == UNION {[1..n -> alphabet] : n \in 0..MaxWords}

FileWords == {"yamap", "Run", "cycling", "walk", "log"}
TrackWords == {"tozan", "Peak", "jogingu", "saikuru", "trail"}

\* a trackpoint as classify_activity reads it: a speed and an elevation
Moving(speed, ele) ==
    Trackpoint(Some(90), Some(13900), ele, None, 0, 0, speed)

\* one trackpoint list for each outcome of the movement tier
Profiles ==
    { <<>>,
      <<Moving(Some(0), None), Moving(Some(2000), None)>>,
      <<Moving(Some(0), Some(0)), Moving(Some(2000), Some(201))>>,
      <<Moving(Some(0), None), Moving(Some(40000), None)>> }

ClassifySpeeds == {None, Some(0), Some(2000), Some(6000), Some(15000), Some(40000)}
ClassifyElevations == {None, Some(0), Some(100), Some(201)}

MovingPoints == {Moving(v, e) : v \in ClassifySpeeds, e \in ClassifyElevations}

InitClassify ==
    /\ pc = "track"
    /\ \/ /\ gpx_filename \in Words(FileWords)
          /\ gpx_track_name \in Words(TrackWords)
          /\ gpx_trackpoints \in Profiles
       \/ /\ gpx_filename = <<"log">>
          /\ gpx_track_name = <<"trail">>
          /\ gpx_trackpoints \in UNION {[1..n -> MovingPoints] : n \in 0..MaxTrackpoints}
    /\ gpx_activity_type = "none"
    /\ gpx_semantic_type = "none"
    /\ IdleMerge
    /\ IdleTime
    /\ IdleGeo
    /\ IdleFile
    /\ IdleParse

ClassifyActivity ==
    /\ pc = "track"
    /\ gpx_activity_type' = classify_activity(gpx_filename, gpx_track_name, gpx_trackpoints)
    /\ pc' = "classified"
    /\ UNCHANGED <<gpx_filename, gpx_track_name, gpx_trackpoints, gpx_semantic_type,
                   mergeVars, timeVars, geoVars, parseVars, fileVars>>

NextClassify == ClassifyActivity

SpecClassify == InitClassify /\ [][NextClassify]_vars

\* keyword k is in the lowered name
In(name, k) == \E i \in 1..Len(name) : k \in SubKeywords(LowerWord(name[i]))

FilenameLabel(name) ==
    IF In(name, "yamap") THEN "hiking"
    ELSE IF In(name, "run") \/ In(name, "running") THEN "running"
    ELSE IF In(name, "bike") \/ In(name, "cycling") THEN "cycling"
    ELSE IF In(name, "walk") \/ In(name, "walking") THEN "walking"
    ELSE "none"

TrackNameLabel(name) ==
    IF \E k \in mountain_keywords : In(name, k) THEN "hiking"
    ELSE IF \E k \in running_keywords : In(name, k) THEN "running"
    ELSE IF \E k \in cycling_keywords : In(name, k) THEN "cycling"
    ELSE "none"

\* C16: the tiers of classify_activity in strict priority: a file-name
\* keyword (yamap, run, bike/cycling, walk, in that order) decides for every
\* track name and trackpoint list; otherwise a track-name keyword (mountain,
\* running, cycling set, in that order) decides for every trackpoint list;
\* only otherwise the movement heuristic is consulted.
C16_TierPriority ==
    pc = "classified" =>
        /\ FilenameLabel(gpx_filename) # "none"
              => gpx_activity_type = FilenameLabel(gpx_filename)
        /\ (FilenameLabel(gpx_filename) = "none" /\ TrackNameLabel(gpx_track_name) # "none")
              => gpx_activity_type = TrackNameLabel(gpx_track_name)
        /\ (FilenameLabel(gpx_filename) = "none" /\ TrackNameLabel(gpx_track_name) = "none")
              => gpx_activity_type = classify_by_movement(gpx_trackpoints)

C16_Witness ==
    /\ pc = "classified"
    /\ FilenameLabel(gpx_filename) = "walking"
    /\ TrackNameLabel(gpx_track_name) = "hiking"
    /\ classify_by_movement(gpx_trackpoints) = "driving"
    /\ gpx_activity_type = "walking"

\* the strictly positive speeds of the trackpoints, absent speeds read as 0
PositiveSpeedIndexes(tps) ==
    {i \in 1..Len(tps) : tps[i].speed # None /\ tps[i].speed[1] > 0}

RECURSIVE SpeedTotal(_, _)
SpeedTotal(tps, idx) ==
    IF idx = {} THEN 0
    ELSE LET i == CHOOSE k \in idx : TRUE
         IN  tps[i].speed[1] + SpeedTotal(tps, idx \ {i})

\* the last position before i that has an elevation, 0 if there is none
PrevElevated(tps, i) ==
    LET before == {k \in 1..(i - 1) : tps[k].elevation # None}
    IN  IF before = {} THEN 0 ELSE CHOOSE k \in before : \A m \in before : m <= k

RECURSIVE GainTotal(_, _)
\* the sum of the upward steps between consecutive non-null elevations
GainTotal(tps, i) ==
    IF i > Len(tps) THEN 0
    ELSE (IF tps[i].elevation # None /\ PrevElevated(tps, i) # 0
             /\ tps[i].elevation[1] > tps[PrevElevated(tps, i)].elevation[1]
          THEN tps[i].elevation[1] - tps[PrevElevated(tps, i)].elevation[1]
          ELSE 0) + GainTotal(tps, i + 1)

\* mean of the positive speeds < limit km/h (the mean is 0 without any)
MeanBelow(tps, limit) ==
    LET idx == PositiveSpeedIndexes(tps)
    IN  IF idx = {} THEN 0 < limit
        ELSE SpeedTotal(tps, idx) < limit * KmH * Cardinality(idx)

HeuristicLabel(tps) ==
    IF Len(tps) <= 1 THEN "unknown"
    ELSE IF MeanBelow(tps, hiking_max) /\ GainTotal(tps, 1) > hiking_min_gain THEN "hiking"
    ELSE IF MeanBelow(tps, walking_max) THEN "walking"
    ELSE IF MeanBelow(tps, running_max) THEN "running"
    ELSE IF MeanBelow(tps, cycling_max) THEN "cycling"
    ELSE IF ~MeanBelow(tps, driving_min) THEN "driving"
    ELSE "unknown"

-----------------------------------------------------------------------------
(* Specification of assign_semantic_type: an activity label and a track    *)
(* name through the function.                                              *)

ActivityLabels ==
    {"hiking", "walking", "running", "cycling", "driving", "unknown", "waypoint"}

SemanticWords == {"yama", "tozan", "kogen", "haikingu", "mountain", "Peak", "trail"}

InitSemantic ==
    /\ pc = "label"
    /\ gpx_filename = <<>>
    /\ gpx_track_name \in Words(SemanticWords)
    /\ gpx_trackpoints = <<>>
    /\ gpx_activity_type \in ActivityLabels
    /\ gpx_semantic_type = "none"
    /\ IdleMerge
    /\ IdleTime
    /\ IdleGeo
    /\ IdleFile
    /\ IdleParse

AssignSemanticType ==
    /\ pc = "label"
    /\ gpx_semantic_type' = assign_semantic_type(gpx_activity_type, gpx_track_name)
    /\ pc' = "assigned"
    /\ UNCHANGED <<gpx_filename, gpx_track_name, gpx_trackpoints, gpx_activity_type,
                   mergeVars, timeVars, geoVars, parseVars, fileVars>>

NextSemantic == AssignSemanticType

SpecSemantic == InitSemantic /\ [][NextSemantic]_vars

\* the track name contains one of the classifier's mountain keywords
MountainNamed(name) == \E k \in mountain_keywords : In(name, k)

MappedCategory(label) ==
    CASE label \in {"hiking", "walking"} -> "Recreation"
      [] label \in {"running", "cycling"} -> "Sports"
      [] label = "driving" -> "Transportation"
      [] OTHER -> "Other"

\* C18: assign_semantic_type returns "Mountain", whatever the label, for
\* every track name that contains one of the classifier's mountain keywords,
\* and the label's mapped category for every other track name.
C18_MountainOverride ==
    pc = "assigned" =>
        gpx_semantic_type =
            IF MountainNamed(gpx_track_name) THEN "Mountain"
            ELSE MappedCategory(gpx_activity_type)

\* the part of C18 that holds: without any mountain token of either list
\* the category is the mapped one, and the tokens of assign_semantic_type's
\* own list force "Mountain"
C18_OwnTokensOverride ==
    pc = "assigned" =>
        /\ (\E k \in semantic_mountain_tokens, i \in 1..Len(gpx_track_name) :
                k \in SubKeywords(gpx_track_name[i]))
              => gpx_semantic_type = "Mountain"
        /\ (~MountainNamed(gpx_track_name)
            /\ ~\E i \in 1..Len(gpx_track_name) : gpx_track_name[i] = "kogen")
              => gpx_semantic_type = MappedCategory(gpx_activity_type)

IsKml(doc) == doc.format = "kml" /\ doc.body.wellformed /\ doc.body.root = "kml"

\* the positions of a gx:Track that have both a <when> and a <gx:coord>
PairedPositions(track) ==
    {i \in 1..Len(track.coords) : i <= Len(track.whens)}

\* a paired <gx:coord> of the document is an empty element
HasEmptyCoord(doc) ==
    \E k \in 1..Len(doc.tracks) :
        \E i \in PairedPositions(doc.tracks[k]) : doc.tracks[k].coords[i].kind = "absent"

\* the positions v of the pairs whose coord parses
GxPositions(doc) ==
    UNION {{doc.tracks[k].coords[i].val :
              i \in {j \in PairedPositions(doc.tracks[k]) :
                       doc.tracks[k].coords[j].kind = "value"}} :
           k \in 1..Len(doc.tracks)}

\* the vertices that parse, of the placemarks that satisfy P
Vertices(doc, P(_)) ==
    UNION {{<<"kml_" \o doc.placemarks[k].geometry, doc.placemarks[k].coords[i].val>> :
              i \in {j \in 1..Len(doc.placemarks[k].coords) :
                       doc.placemarks[k].coords[j].kind = "value"}} :
           k \in {m \in 1..Len(doc.placemarks) : P(doc.placemarks[m])}}

RecordSet(records) == {<<records[i].type, records[i].position>> : i \in 1..Len(records)}

Untimed(r) == r.point_time = None /\ r.start_time = None /\ r.end_time = None

AllOfType(records, types) == \A i \in 1..Len(records) : records[i].type \in types

\* the time a record of a timed placemark must carry
StampedBy(doc, r) ==
    \E k \in 1..Len(doc.placemarks) :
        /\ has_time(doc.placemarks[k])
        /\ r = KmlRecord(r.type, r.position, doc.placemarks[k].time)
        /\ \E i \in 1..Len(doc.placemarks[k].coords) :
              doc.placemarks[k].coords[i] = Value(r.position)

OwedByTrack(track) ==
    LET paired == [i \in 1..Min(Len(track.whens), Len(track.coords)) |->
                      [when |-> track.whens[i], coord |-> track.coords[i]]]
        parsed == SelectSeq(paired, LAMBDA p : p.coord.kind = "value")
    IN  [i \in 1..Len(parsed) |->
            KmlRecord("kml_gx_track", parsed[i].coord.val,
                      PlacemarkTime(Some(parsed[i].when), None, None))]

RECURSIVE OwedByTracks(_)
OwedByTracks(tracks) ==
    IF tracks = <<>> THEN <<>>
    ELSE OwedByTrack(Head(tracks)) \o OwedByTracks(Tail(tracks))

\* C20: for every gx:Track, also under gx:MultiTrack, _extract_gx_track
\* pairs the i-th <when> with the i-th <gx:coord> for i < min(m, n), ignores
\* the surplus, never fails, and emits one record per pair whose coord
\* parses, each with the time of its own position.
C20_GxTrackPairsTruncated ==
    (pc = "parsed" /\ IsKml(document) /\ document.body.tracks # <<>>
       /\ OwedByTracks(document.body.tracks) # <<>>) =>
        /\ ~parse_result.raised
        /\ parse_result.records = OwedByTracks(document.body.tracks)

\* the part of C20 that holds: unless a paired <gx:coord> is an empty
\* element, a length mismatch is tolerated and the pairs are as stated
C20_MismatchTolerated ==
    (pc = "parsed" /\ IsKml(document) /\ ~HasEmptyCoord(document.body)
       /\ OwedByTracks(document.body.tracks) # <<>>) =>
        /\ ~parse_result.raised
        /\ parse_result.records = OwedByTracks(document.body.tracks)

-----------------------------------------------------------------------------
(* Specification of the KMZ reader: _read_kml_bytes on a container whose   *)
(* members are listed in archive order.                                    *)

KmzNames ==
    { <<"doc", ".kml">>, <<"DOC", ".KML">>, <<"a", ".kml">>, <<"a", ".KML">>,
      <<"dir/", "doc", ".kml">>, <<"a", "doc", ".kml">>, <<"dir/", "a", ".kml">>,
      <<"a", ".txt">>, <<"doc", ".kml", ".txt">> }

\* archives of distinct member names
KmzContainers ==
    UNION {{l \in [1..n -> KmzNames] : \A i, j \in 1..n : i # j => l[i] # l[j]} :
              n \in 0..MaxMembers}

InitKmz ==
    /\ pc = "kmz"
    /\ kmz_namelist \in KmzContainers
    /\ kml_bytes = KmzMember(<<>>)
    /\ IdleMain
    /\ IdleUser
    /\ IdleFrame
    /\ IdleMerge
    /\ IdleTime
    /\ IdleGeo
    /\ IdleParse
    /\ IdleTrack

ReadKmlBytes ==
    /\ pc = "kmz"
    /\ kml_bytes' = _read_kml_bytes(kmz_namelist)
    /\ pc' = "read"
    /\ UNCHANGED <<kmz_namelist, mainVars, userVars, frameVars, mergeVars, timeVars, geoVars, parseVars, trackVars>>

NextKmz == ReadKmlBytes

SpecKmz == InitKmz /\ [][NextKmz]_vars

Members == {kmz_namelist[i] : i \in 1..Len(kmz_namelist)}

\* the members whose name ends in .kml, whatever the case of the letters
KmlMembers == {n \in Members : LowerPiece(n[Len(n)]) = ".kml"}

\* the name spells doc.kml somewhere, whatever the case of the letters
DocLike(n) ==
    \E i \in 1..(Len(n) - 1) : LowerPiece(n[i]) = "doc" /\ LowerPiece(n[i + 1]) = ".kml"

-----------------------------------------------------------------------------
(* Specification of the run: main() from the discovered files to the call  *)
(* of combine_dataframes, one loop iteration a step.                        *)

GoodSegment == Segment(TRUE, Some(Visit(Str(GeoExample), "0.9")), None, <<>>)

\* a sound export, a list of numbers, a list of strings, an export with one
\* non-numeric probability, and a file that is not JSON
JsonFiles ==
    { JsonFile(TRUE, JsonData("list", FALSE, <<GoodSegment>>)),
      JsonFile(TRUE, JsonData("list", FALSE,
                   <<NonMapping("num", FALSE), NonMapping("num", FALSE)>>)),
      JsonFile(TRUE, JsonData("list", FALSE, <<NonMapping("str", FALSE)>>)),
      JsonFile(TRUE, JsonData("list", FALSE,
                   <<GoodSegment,
                     Segment(TRUE, Some(Visit(Str(GeoExample), "high")), None, <<>>)>>)),
      JsonFile(FALSE, JsonData("null", FALSE, <<>>)) }

GoodGpxDoc ==
    GpxDoc(TRUE, "gpx", <<"log">>,
           <<GpxTrack(<<"trail">>,
                      <<<<GpxPoint(Some(Place(0, 13900)), Value(10), Absent)>>>>)>>,
           <<>>)

\* a sound file, a file that is not well-formed XML, a file without header
GpxFiles ==
    { GpxFile(TRUE, GoodGpxDoc),
      GpxFile(TRUE, GpxDoc(FALSE, "gpx", <<"log">>, <<>>, <<>>)),
      GpxFile(FALSE, GoodGpxDoc) }

GoodKmlDoc ==
    KmlDoc(TRUE, "kml", <<>>,
           <<Placemark(PlacemarkTime(Some(30), None, None), "point", <<Value(3)>>, 0)>>)

\* a sound .kml, a .kmz without a KML member, a sound .kmz, a malformed .kml
KmlFiles ==
    { KmlFile(".kml", <<>>, GoodKmlDoc),
      KmlFile(".kmz", <<<<"a", ".txt">>>>, GoodKmlDoc),
      KmlFile(".kmz", <<<<"a", ".kml">>>>, GoodKmlDoc),
      KmlFile(".kml", <<>>, KmlDoc(FALSE, "kml", <<>>, <<>>)) }

FilesUpTo(universe, n) == UNION {[1..k -> universe] : k \in 0..n}

TotalFiles == Len(json_files) + Len(gpx_files) + Len(kml_files)

InitMain ==
    /\ pc = "discovered"
    /\ json_files \in FilesUpTo(JsonFiles, MaxFiles)
    /\ gpx_files \in FilesUpTo(GpxFiles, MaxFiles)
    /\ kml_files \in FilesUpTo(KmlFiles, MaxFiles)
    /\ TotalFiles <= MaxFiles
    /\ file_i = 0
    /\ all_dataframes = <<>>
    /\ kmz_namelist = <<>>
    /\ kml_bytes = KmzMember(<<>>)
    /\ IdleUser
    /\ IdleFrame
    /\ IdleMerge
    /\ IdleTime
    /\ IdleGeo
    /\ IdleParse
    /\ IdleTrack

OtherVars == <<kmz_namelist, kml_bytes, userVars, frameVars, mergeVars, timeVars, geoVars, parseVars, trackVars>>

\* main, lines 98-113: the run ends when there is no JSON and no GPX file
CountFiles ==
    /\ pc = "discovered"
    /\ pc' = IF Len(json_files) + Len(gpx_files) = 0 THEN "returned" ELSE "files"
    /\ UNCHANGED <<mainVars, OtherVars>>

\* what one loop iteration leaves behind
AfterFile(kind, outcome) ==
    /\ pc' = IF outcome = "raised" THEN "aborted" ELSE "files"
    /\ file_i' = IF outcome = "raised" THEN file_i ELSE file_i + 1
    /\ all_dataframes' = IF outcome = "appended"
                         THEN Append(all_dataframes, <<kind, file_i + 1>>)
                         ELSE all_dataframes
    /\ UNCHANGED <<json_files, gpx_files, kml_files, OtherVars>>

\* process_json_files, one iteration of the loop
ProcessJsonFile ==
    /\ pc = "files"
    /\ file_i < Len(json_files)
    /\ AfterFile("json", process_json_file(json_files[file_i + 1]))

\* process_gpx_files, one iteration of the loop
ProcessGpxFile ==
    /\ pc = "files"
    /\ Len(json_files) <= file_i
    /\ file_i < Len(json_files) + Len(gpx_files)
    /\ AfterFile("gpx", process_gpx_file(gpx_files[file_i - Len(json_files) + 1]))

\* main, one iteration of the KML loop
ProcessKmlFile ==
    /\ pc = "files"
    /\ Len(json_files) + Len(gpx_files) <= file_i
    /\ file_i < TotalFiles
    /\ LET file == kml_files[file_i - Len(json_files) - Len(gpx_files) + 1]
       IN  \E fastkml \in FastkmlOutcomes(file.doc) :
              AfterFile("kml", process_kml_file(file, fastkml))

\* main, lines 151-157: with no frame the run ends, otherwise it merges
Integrate ==
    /\ pc = "files"
    /\ file_i = TotalFiles
    /\ pc' = IF all_dataframes = <<>> THEN "returned" ELSE "merging"
    /\ UNCHANGED <<mainVars, OtherVars>>

NextMain == CountFiles \/ ProcessJsonFile \/ ProcessGpxFile \/ ProcessKmlFile \/ Integrate

SpecMain == InitMain /\ [][NextMain]_vars

RunEnded == pc \in {"returned", "merging", "aborted"}

JsonDefect(file) == process_json_file(file) # "appended"
GpxDefect(file) == process_gpx_file(file) # "appended"
KmlDefect(file) == \A fastkml \in FastkmlOutcomes(file.doc) :
                       process_kml_file(file, fastkml) # "appended"

SomeDefect ==
    \/ \E k \in 1..Len(json_files) : JsonDefect(json_files[k])
    \/ \E k \in 1..Len(gpx_files) : GpxDefect(gpx_files[k])
    \/ \E k \in 1..Len(kml_files) : KmlDefect(kml_files[k])

\* C22: a run over files of which some are defective, and which has a JSON
\* or GPX file to start on, never aborts, and when it has ended all three
\* loops are done with every file: the defective file was skipped and the
\* files behind it were read and parsed.
C22_SkipAndContinue ==
    SomeDefect /\ Len(json_files) + Len(gpx_files) > 0 =>
        /\ pc # "aborted"
        /\ RunEnded => file_i = TotalFiles

\* the JSON files whose first element is a number or null
RaisesInValidation(file) == file.readable /\ validate_json_data(file.data) = "raises"

\* C22, the part that holds: when no JSON file is a list that starts with a
\* number or null, the run never aborts and is done with every file.
C22_ContainedDefects ==
    (\A k \in 1..Len(json_files) : ~RaisesInValidation(json_files[k]))
    /\ Len(json_files) + Len(gpx_files) > 0 =>
        /\ pc # "aborted"
        /\ RunEnded => file_i = TotalFiles

\* C28: when discovery returned KML/KMZ files, a run that has ended without
\* aborting is done with each of them (each was handed to the KML parser),
\* and it ended in the merge if one of them has a Placemark to give.
C28_KmlFilesRouted ==
    kml_files # <<>> /\ pc \in {"returned", "merging"} =>
        /\ file_i = TotalFiles
        /\ (\E k \in 1..Len(kml_files) : ~KmlDefect(kml_files[k])) => pc = "merging"

\* C28, the part that holds: the KML files are routed when discovery also
\* returned a JSON or GPX file.
C28_RoutedBesideOtherFiles ==
    kml_files # <<>> /\ Len(json_files) + Len(gpx_files) > 0
    /\ pc \in {"returned", "merging"} =>
        /\ file_i = TotalFiles
        /\ (\E k \in 1..Len(kml_files) : ~KmlDefect(kml_files[k])) => pc = "merging"

-----------------------------------------------------------------------------
(* Specification of the username derivation: get_username_from_filename on *)
(* a path, under either os.path.                                            *)

PathLeads == {<<>>, <<"/">>, <<"C:", "\\">>}

PathDirs ==
    UNION {[1..k -> {<<"path", "/">>, <<"path", "\\">>}] : k \in 0..MaxDirs}

PathStems ==
    { <<"username-", "test">>, <<"user-", "john">>, <<"USER-", "john">>,
      <<"john", "_", "data">>, <<"nopattern">>, <<"user-", "a", "_", "b">>,
      <<"_", "x">> }

PathExts == {<<>>, <<".", "json">>}

RECURSIVE JoinPieces(_)
JoinPieces(ss) == IF ss = <<>> THEN <<>> ELSE Head(ss) \o JoinPieces(Tail(ss))

Paths ==
    {lead \o JoinPieces(dirs) \o stem \o ext :
        lead \in PathLeads, dirs \in PathDirs, stem \in PathStems, ext \in PathExts}

InitUser ==
    /\ pc = "path"
    /\ os_path \in {"posixpath", "ntpath"}
    /\ filepath \in Paths
    /\ username = <<>>
    /\ kmz_namelist = <<>>
    /\ kml_bytes = KmzMember(<<>>)
    /\ IdleMain
    /\ IdleFrame
    /\ IdleMerge
    /\ IdleTime
    /\ IdleGeo
    /\ IdleParse
    /\ IdleTrack

GetUsernameFromFilename ==
    /\ pc = "path"
    /\ username' = get_username_from_filename(os_path, filepath)
    /\ pc' = "username"
    /\ UNCHANGED <<os_path, filepath, kmz_namelist, kml_bytes, mainVars, frameVars,
                   mergeVars, timeVars, geoVars, parseVars, trackVars>>

NextUser == GetUsernameFromFilename

SpecUser == InitUser /\ [][NextUser]_vars

\* the positions of the directory separators of either kind
Separators(path) == {i \in 1..Len(path) : path[i] \in {"/", "\\"}}

\* the file's base name: what follows the last separator of either kind
BaseName(path) ==
    IF Separators(path) = {} THEN path
    ELSE SubSeq(path, 1 + CHOOSE i \in Separators(path) :
                              \A j \in Separators(path) : j <= i, Len(path))

\* the base name without its extension
Stem(path) ==
    LET b == BaseName(path)
    IN  IF Len(b) >= 2 /\ b[Len(b) - 1] = "." THEN SubSeq(b, 1, Len(b) - 2) ELSE b

\* the derivation rules on a stem
DerivedUsername(stem) ==
    IF stem[1] \in {"username-", "user-", "USER-"} THEN Tail(stem)
    ELSE IF \E i \in 1..Len(stem) : stem[i] = "_"
         THEN SubSeq(stem, 1, (CHOOSE i \in 1..Len(stem) :
                                  stem[i] = "_" /\ \A j \in 1..(i - 1) : stem[j] # "_") - 1)
         ELSE USERNAME

\* C23: the username is derived from the base name without extension alone,
\* whichever separator the directories of the path are written with: the
\* rest behind a prefix "username-" or "user-" in any case, else the text
\* before the first underscore, else the configured USERNAME.
C23_UsernameFromBaseName ==
    pc = "username" => username = DerivedUsername(Stem(filepath))

\* C23, the part that holds: paths whose directories are separated by "/"
\* only, and every path under ntpath.
C23_ForwardSlashPaths ==
    pc = "username" /\ (os_path = "ntpath" \/ \A i \in 1..Len(filepath) : filepath[i] # "\\")
        => username = DerivedUsername(Stem(filepath))

-----------------------------------------------------------------------------
(* Specification of the path of one file's records to the output file:     *)
(* convert_records_to_dataframe, combine_dataframes, sort_dataframe_by_time *)
(* and export_to_csv, as main() calls them.                                 *)

\* coordinate strings of an iPhone export, and a text that is no coordinate
CoordinateTexts ==
    { Str(<<"geo:", "35.6", ",", "139.7">>), Str(<<"geo:", "nan", ",", "139.7">>),
      Str(<<"geo:", "0.0", ",", "139.7">>), Str(<<"x">>) }

NaiveTime(w) == [kind |-> "naive", wall |-> w, off |-> 0]
AwareTime(w, o) == [kind |-> "aware", wall |-> w, off |-> o]

\* point_time, start_time, end_time of a record
FrameTimes ==
    { <<None, None, None>>,
      <<Some(NaiveTime(10)), None, None>>,
      <<Some(AwareTime(1, 0)), None, None>>,
      <<Some(AwareTime(20, 9)), None, None>>,
      <<None, Some(NaiveTime(12)), Some(NaiveTime(13))>> }

FrameRecord(times, latlng) ==
    [c \in FrameColumns |->
        CASE c = "type" -> Some("rec")
          [] c = "username" -> Some("testuser")
          [] c = "activity_type" -> None
          [] c = "point_time" -> times[1]
          [] c = "start_time" -> times[2]
          [] c = "end_time" -> times[3]
          [] c = "latitude" -> latlng[1]
          [] c = "longitude" -> latlng[2]]

FrameRecords ==
    {FrameRecord(t, extract_geo_coordinates(g)) : t \in FrameTimes, g \in CoordinateTexts}

InitFrame ==
    /\ pc = "records"
    /\ conv_records \in UNION {[1..n -> FrameRecords] : n \in 0..MaxRecords}
    /\ conv_df = EmptyDataFrame
    /\ csv_header = None
    /\ kmz_namelist = <<>>
    /\ kml_bytes = KmzMember(<<>>)
    /\ IdleMain
    /\ IdleUser
    /\ IdleMerge
    /\ IdleTime
    /\ IdleGeo
    /\ IdleParse
    /\ IdleTrack

\* main: df = convert_records_to_dataframe(records), appended to all_dataframes
ConvertRecords ==
    /\ pc = "records"
    /\ conv_df' = convert_records_to_dataframe(conv_records)
    /\ dataframes' = IF df_empty(convert_records_to_dataframe(conv_records))
                     THEN <<>>          \* if df.empty: continue
                     ELSE <<convert_records_to_dataframe(conv_records)>>
    /\ pc' = "batches"
    /\ UNCHANGED <<conv_records, csv_header, combined_df, sorted_indices, sorted_df,
                   kmz_namelist, kml_bytes, mainVars, userVars,
                   timeVars, geoVars, parseVars, trackVars>>

\* main, lines 168-174: validate_output_data, then export_to_csv
ExportToCsv ==
    /\ pc = "sorted"
    /\ IF validate_output_data(sorted_df)
       THEN csv_header' = export_to_csv(sorted_df) /\ pc' = "exported"
       ELSE csv_header' = None /\ pc' = "returned"
    /\ UNCHANGED <<conv_records, conv_df, mergeVars, kmz_namelist, kml_bytes,
                   mainVars, userVars, timeVars, geoVars, parseVars, trackVars>>

NextFrame == ConvertRecords \/ Combine \/ SortByTime \/ ExportToCsv

SpecFrame == InitFrame /\ [][NextFrame]_vars

Together(row) == (row["latitude"] = None) <=> (row["longitude"] = None)

\* C24: in every record the parser emitted, and in every row of the frame
\* convert_records_to_dataframe made of them, latitude and longitude are
\* both null or both non-null.
C24_LatLonBothOrNeither ==
    /\ \A i \in 1..Len(conv_records) : Together(conv_records[i])
    /\ \A i \in 1..Len(conv_df.rows) : Together(conv_df.rows[i])

\* C24, the part that holds: the parser's records carry both coordinates
\* or neither, and so do the rows of the frame when no coordinate is NaN.
C24_TogetherUnlessNaN ==
    /\ \A i \in 1..Len(conv_records) : Together(conv_records[i])
    /\ (\A i \in 1..Len(conv_records) :
           conv_records[i]["latitude"] # Some(NaN) /\ conv_records[i]["longitude"] # Some(NaN))
       => \A i \in 1..Len(conv_df.rows) : Together(conv_df.rows[i])

\* C25: the file written has the full declared header, every column of
\* CSV_COLUMNS in the declared order, whatever the records hold.
C25_FullSchemaExported ==
    pc = "exported" => csv_header = Some(CSV_COLUMNS)

\* the declared columns that hold a value in some row of the converted frame
PopulatedColumns ==
    {c \in conv_df.cols : \E i \in 1..Len(conv_df.rows) : conv_df.rows[i][c] # None}

\* C25, the part that holds: the header is made of the declared columns
\* that hold a value in some record, each once, in the declared order.
C25_PopulatedColumnsInOrder ==
    pc = "exported" =>
        /\ csv_header # None
        /\ {csv_header[1][k] : k \in 1..Len(csv_header[1])} = PopulatedColumns
        /\ \A k, l \in 1..Len(csv_header[1]) : k < l =>
              \E m, n \in 1..Len(CSV_COLUMNS) :
                  m < n /\ CSV_COLUMNS[m] = csv_header[1][k] /\ CSV_COLUMNS[n] = csv_header[1][l]

Cell(df, i, c) == IF c \in df.cols THEN df.rows[i][c] ELSE None

\* C27: sort_dataframe_by_time only reorders: row i of its output is the
\* row sorted_indices[i] of the converted frame, with the start_time,
\* end_time and point_time that convert_records_to_dataframe gave it.
C27_SortKeepsTimes ==
    pc = "sorted" =>
        \A i \in 1..Len(sorted_df.rows) : \A c \in TimeColumns :
            Cell(sorted_df, i, c) = conv_df.rows[sorted_indices[i]][c]

\* C27, what holds instead: every time of the output is the converted time
\* read once more as an INPUT_TIMEZONE reading and converted again.
C27_SortConvertsAgain ==
    pc = "sorted" =>
        \A i \in 1..Len(sorted_df.rows) : \A c \in TimeColumns :
            Cell(sorted_df, i, c) =
                (IF conv_df.rows[sorted_indices[i]][c] = None THEN None
                 ELSE Some(conv_df.rows[sorted_indices[i]][c][1] - INPUT_TIMEZONE + OUTPUT_TIMEZONE))

\* no keyword of the file name or the track name decides the activity
NoKeywordMatch(doc) ==
    classify_activity(doc.filename, doc.tracks[1].name, <<>>) = "unknown"

\* C26: the records of a track of more than one point, whose file name and
\* track name match no keyword, carry the activity that the quantitative
\* tier gives for the speeds and elevations the same records carry, the
\* speeds calculate_speeds assigned to the track.
C26_ActivityFromComputedSpeeds ==
    (pc = "parsed" /\ IsGpx(document) /\ Len(document.body.tracks) = 1
     /\ NoKeywordMatch(document.body)) =>
        LET got == RecordsOfType(parse_result.records, "gpx_trackpoint")
        IN  Len(got) > 1 =>
               \A i \in 1..Len(got) : got[i].activity_type = classify_by_movement(got)

\* C26, what holds instead: the activity is the one the quantitative tier
\* gives when every speed is still missing, walking or hiking.
C26_ActivityFromMissingSpeeds ==
    (pc = "parsed" /\ IsGpx(document) /\ Len(document.body.tracks) = 1
     /\ NoKeywordMatch(document.body)) =>
        LET got == RecordsOfType(parse_result.records, "gpx_trackpoint")
        IN  Len(got) > 1 =>
               \A i \in 1..Len(got) :
                  got[i].activity_type =
                      (IF calculate_elevation_gain(got) > hiking_min_gain
                       THEN "hiking" ELSE "walking")

\* C29: the _gpx_point_sequence values of the gpx_trackpoint records of one
\* track increase strictly in the order the records are emitted.
C29_PointSequenceIncreases ==
    (pc = "parsed" /\ IsGpx(document) /\ Len(document.body.tracks) = 1) =>
        LET got == RecordsOfType(parse_result.records, "gpx_trackpoint")
        IN  \A i, j \in 1..Len(got) :
               i < j => got[i].point_sequence < got[j].point_sequence

\* C29, the part that holds: the values increase strictly within a track
\* that has one <trkseg>, points dropped or not.
C29_IncreasesWithinOneSegment ==
    (pc = "parsed" /\ IsGpx(document) /\ Len(document.body.tracks) = 1
     /\ Len(document.body.tracks[1].segments) = 1) =>
        LET got == RecordsOfType(parse_result.records, "gpx_trackpoint")
        IN  \A i, j \in 1..Len(got) :
               i < j => got[i].point_sequence < got[j].point_sequence

\* the segments of an iPhone export that parse_iphone_data reads to the end
SoundSegments(elems) == \A k \in 1..Len(elems) : ~iphone_segment(elems[k]).raised

\* the coordinate pairs of the activity starts (ends) that parse, in order
RECURSIVE ParsedEndpoints(_, _)
ParsedEndpoints(elems, which) ==
    IF elems = <<>> THEN <<>>
    ELSE LET seg == Head(elems)
             pair == IF seg.activity = None THEN <<None, None>>
                     ELSE extract_geo_coordinates(
                              IF which = "activity_start" THEN seg.activity[1].start
                              ELSE seg.activity[1].end)
         IN  (IF pair[1] # None /\ pair[2] # None THEN <<pair>> ELSE <<>>)
             \o ParsedEndpoints(Tail(elems), which)

RecordPairs(records) ==
    [i \in 1..Len(records) |-> <<records[i].latitude, records[i].longitude>>]

\* C30: an iPhone export whose segments are all read yields one
\* activity_start record for every activity whose start string parses to a
\* pair, carrying that pair, and no other; the same for activity_end.
C30_EndpointPerParsablePair ==
    (pc = "parsed" /\ document.format = "json" /\ dialect = "iphone"
     /\ SoundSegments(document.body.elems)) =>
        \A which \in {"activity_start", "activity_end"} :
            RecordPairs(RecordsOfType(parse_result.records, which))
                = ParsedEndpoints(document.body.elems, which)

\* C30, the part that holds: the records are the parsable pairs of which
\* neither coordinate is zero.
C30_EndpointPerNonZeroPair ==
    (pc = "parsed" /\ document.format = "json" /\ dialect = "iphone"
     /\ SoundSegments(document.body.elems)) =>
        \A which \in {"activity_start", "activity_end"} :
            RecordPairs(RecordsOfType(parse_result.records, which))
                = SelectSeq(ParsedEndpoints(document.body.elems, which),
                            LAMBDA pair : pair[1][1] # 0 /\ pair[2][1] # 0)

=============================================================================
